---- MODULE Spec2Model ----
(***************************************************************************)
(* Model of the manga-ocr patch pipeline: the two merge_patches endpoints  *)
(* (src/handlers/merge.py and src/server.py) and the two generate_patch    *)
(* endpoints (src/handlers/patch.py and src/server.py), with the cleaner   *)
(* globals they read.                                                      *)
(*                                                                         *)
(* An image is a record [w, h, ch, pix]: pix maps <<column, row>> to       *)
(* <<c, a>>, where c stands for the value of one colour channel (the B, G  *)
(* and R channels are processed identically and independently by every     *)
(* operation modelled here) and a is the alpha value; a 3-channel image    *)
(* carries a = 255, the value cv2.cvtColor(BGR2BGRA) gives it.             *)
(***************************************************************************)
EXTENDS Integers, Sequences, FiniteSets, TLC

\* ---------------------------------------------------------------- bounds
MaxW == 2            \* page and patch widths range over 1..MaxW
MaxOverlays == 2     \* overlays per merge request

\* ------------------------------------------------------- program constants
Opaque == 255        \* alpha of a pixel without alpha channel
JpegQuality == 95    \* cv2.IMWRITE_JPEG_QUALITY used by server.py

None == "None"
PageColours == {100} \* colour of the page pixels of the modelled requests
PatchColours == {0, 255}

Widths == 1..MaxW
Heights == {1, 2}
Pixels(w, h) == (0..(w - 1)) \X (0..(h - 1))

\* ------------------------------------------------------------ image inputs
\* Alpha patterns of the modelled 4-channel patches: fully transparent, or
\* opaque on the pixels with even column+row and transparent on the others.
AlphaOf(pattern, p) ==
    CASE pattern = "clear" -> 0
      [] pattern = "mixed" -> IF (p[1] + p[2]) % 2 = 0 THEN Opaque ELSE 0
      [] OTHER -> Opaque

MkImage(w, h, ch, c, pattern) ==
    [w |-> w, h |-> h, ch |-> ch,
     pix |-> [p \in Pixels(w, h) |-> <<c, IF ch = 4 THEN AlphaOf(pattern, p) ELSE Opaque>>]]

\* The absent image (Python's None where an image is expected).
NoImage == MkImage(0, 0, 0, 0, "opaque")

\* What a request carries as an image: base64 text that does not decode,
\* bytes that are no image, or an image file in some container format.
BadBase64 == [kind |-> "badb64"]
Garbage == [kind |-> "garbage"]
File(fmt, img) == [kind |-> "image", fmt |-> fmt, img |-> img]

PageFormats == {"png", "jpeg", "bmp"}
\* A container format that cv2.imdecode reads and PIL has no plugin for
\* (Radiance HDR); one page size of it is enough.
UnidentifiedFormats == {"hdr"}
PageFiles ==
    {File(f, MkImage(w, h, 3, c, "opaque")) : f \in PageFormats, w \in Widths, h \in Heights, c \in PageColours}
        \cup {File(f, MkImage(1, 1, 3, c, "opaque")) : f \in UnidentifiedFormats, c \in PageColours}
        \cup {BadBase64, Garbage}

PatchFiles ==
    {File("png", MkImage(w, h, 3, c, "opaque")) : w \in Widths, h \in Heights, c \in PatchColours}
        \cup {File("png", MkImage(w, h, 4, 255, pat)) : w \in Widths, h \in Heights, pat \in {"clear", "mixed"}}
        \cup {BadBase64, Garbage}

\* Coordinates are floats in the request; the model draws them from the
\* halves x2/2, so that rounding has something to round.
XCoords2 == (-2)..(2 * MaxW)
YCoords2 == (-2)..4
\* An Optional[int] field that is None is modelled by Absent.
Absent == 0 - 1
TargetWidths == Widths \cup {Absent}
TargetHeights == Heights \cup {Absent}

\* ------------------------------------------------------------- decoding
\* base64.b64decode: raises binascii.Error on text that is no base64.
B64Ok(f) == f.kind # "badb64"

\* cv2.imdecode(..., cv2.IMREAD_COLOR): NoImage (None) when the bytes are no image,
\* otherwise always a 3-channel BGR image; an alpha channel is dropped.
ImreadColor(f) ==
    IF f.kind # "image" THEN NoImage
    ELSE [w |-> f.img.w, h |-> f.img.h, ch |-> 3,
          pix |-> [p \in Pixels(f.img.w, f.img.h) |-> <<f.img.pix[p][1], Opaque>>]]

\* cv2.imdecode(..., cv2.IMREAD_UNCHANGED): the image with the channels it has.
ImreadUnchanged(f) == IF f.kind # "image" THEN NoImage ELSE f.img

\* utils.decode_base64_image: NoImage stands for the exception it raises
\* (binascii.Error from b64decode, ValueError when imdecode returns None).
decode_base64_image(f) == IF B64Ok(f) THEN ImreadColor(f) ELSE NoImage

\* cv2.cvtColor(BGR2BGRA) adds an opaque alpha channel, BGRA2BGR drops it.
ToBGRA(img) ==
    [w |-> img.w, h |-> img.h, ch |-> 4,
     pix |-> [p \in Pixels(img.w, img.h) |-> <<img.pix[p][1], IF img.ch = 4 THEN img.pix[p][2] ELSE Opaque>>]]

ToBGR(img) ==
    [w |-> img.w, h |-> img.h, ch |-> 3,
     pix |-> [p \in Pixels(img.w, img.h) |-> <<img.pix[p][1], Opaque>>]]

\* int(round(v)) for v = v2/2: Python rounds halves to the even neighbour.
PyRound(v2) ==
    IF v2 % 2 = 0 THEN v2 \div 2
    ELSE LET f == (v2 - 1) \div 2 IN IF f % 2 = 0 THEN f ELSE f + 1

\* cv2.resize / PIL Image.resize to (w, h): the result has exactly the target
\* size; its pixel values are interpolated by the library, modelled here by
\* the nearest source pixel (a uniform image stays uniform).
Resample(img, w, h) ==
    [w |-> w, h |-> h, ch |-> img.ch,
     pix |-> [p \in Pixels(w, h) |-> img.pix[<<(p[1] * img.w) \div w, (p[2] * img.h) \div h>>]]]

\* ------------------------------------------- handlers/merge.py: one overlay
\* line 50: "if patch.width and patch.height" then cv2.resize
HandlerResize(img, width, height) ==
    IF width # Absent /\ width # 0 /\ height # Absent /\ height # 0
    THEN Resample(img, width, height)
    ELSE img

\* lines 41-51: decode the patch, convert it to BGRA, resize it
HandlerPatch(file, width, height) ==
    LET patch_image == decode_base64_image(file) IN
    IF patch_image = NoImage THEN NoImage
    ELSE HandlerResize(IF patch_image.ch = 3 THEN ToBGRA(patch_image) ELSE patch_image, width, height)

\* Mutant of the bounds check: the right edge is not tested.
HandlerOutOfBoundsNoRightEdge(x, y, patch_w, patch_h, page_w, page_h) ==
    x < 0 \/ y < 0 \/ y + patch_h > page_h

\* line 58: the bounds check
HandlerOutOfBounds(x, y, patch_w, patch_h, page_w, page_h) ==
    x < 0 \/ y < 0 \/ x + patch_w > page_w \/ y + patch_h > page_h

\* Mutant of the blend: the weights of patch and page are exchanged.
HandlerBlendPixelSwapped(patch_px, page_px) ==
    LET a == patch_px[2] IN
    <<(a * page_px[1] + (Opaque - a) * patch_px[1]) \div Opaque,
      (a * page_px[2] + (Opaque - a) * patch_px[2]) \div Opaque>>

\* lines 63-67: alpha * patch + (1 - alpha) * page, truncated to uint8, on
\* all four channels.  alpha = a / 255.0 is exactly 0.0 or 1.0 for the
\* alpha values 0 and 255, the only ones the modelled patches carry.
HandlerBlendPixel(patch_px, page_px) ==
    LET a == patch_px[2] IN
    <<(a * patch_px[1] + (Opaque - a) * page_px[1]) \div Opaque,
      (a * patch_px[2] + (Opaque - a) * page_px[2]) \div Opaque>>

\* Mutant of the slice assignment: the blended region replaces the buffer.
HandlerBlendReplacesPage(page, patch, x, y) ==
    [patch EXCEPT !.pix = [p \in Pixels(patch.w, patch.h) |-> HandlerBlendPixel(patch.pix[p], patch.pix[p])]]

HandlerBlend(page, patch, x, y) ==
    [page EXCEPT !.pix =
        [p \in Pixels(page.w, page.h) |->
            IF p[1] >= x /\ p[1] < x + patch.w /\ p[2] >= y /\ p[2] < y + patch.h
            THEN HandlerBlendPixel(patch.pix[<<p[1] - x, p[2] - y>>], page.pix[p])
            ELSE page.pix[p]]]

\* lines 57-67: skip the overlay when it is out of bounds, blend it otherwise
HandlerPlace(page, patch, x, y) ==
    IF HandlerOutOfBounds(x, y, patch.w, patch.h, page.w, page.h)
    THEN page
    ELSE HandlerBlend(page, patch, x, y)

\* ---------------------------------------------- server.py: one overlay
\* lines 595-599: resize when both targets are given and differ from the size
ServerResize(img, width, height) ==
    IF width # Absent /\ height # Absent /\ <<img.w, img.h>> # <<width, height>>
    THEN IF width < 1 \/ height < 1 THEN NoImage ELSE Resample(img, width, height)
    ELSE img

\* lines 575-599: decode the patch keeping its alpha channel, resize it
ServerPatch(file, width, height) ==
    LET patch_cv == IF B64Ok(file) THEN ImreadUnchanged(file) ELSE NoImage IN
    IF patch_cv = NoImage THEN NoImage ELSE ServerResize(patch_cv, width, height)

\* PIL paste_mask_RGBA: BLEND(mask, in1, in2) = DIV255(in1*(255-mask) + in2*mask)
PilDiv255(v) == LET t == v + 128 IN ((t \div 256) + t) \div 256

ServerPastePixel(patch_px, page_px, has_alpha) ==
    IF has_alpha
    THEN <<PilDiv255(page_px[1] * (Opaque - patch_px[2]) + patch_px[1] * patch_px[2]), Opaque>>
    ELSE <<patch_px[1], Opaque>>

\* lines 607-610, Image.paste(patch, (x, y)[, mask]): PIL clips the box to the
\* page, so the part of the patch that lies on the page is pasted and the
\* rest is dropped; has_alpha (line 584) selects the masked paste.
ServerPaste(page, patch, x, y) ==
    [page EXCEPT !.pix =
        [p \in Pixels(page.w, page.h) |->
            IF p[1] >= x /\ p[1] < x + patch.w /\ p[2] >= y /\ p[2] < y + patch.h
            THEN ServerPastePixel(patch.pix[<<p[1] - x, p[2] - y>>], page.pix[p], patch.ch = 4)
            ELSE page.pix[p]]]

\* ------------------------------------------------------------- encoding
\* handlers/merge.py line 71: encode_image_to_base64(result_bgr, "jpg")
HandlerOutputFormat(original_format) == "jpeg"

\* utils.encode_image_to_base64 line 47 passes no parameters to cv2.imencode,
\* which then writes JPEG at OpenCV's default quality.
CvDefaultJpegQuality == 95
HandlerOutputQuality(original_format) == CvDefaultJpegQuality

\* server.py lines 562-564, Image.open(...).format.lower(): PIL raises
\* UnidentifiedImageError (None here) when no plugin identifies the bytes.
ImageOpenFormat(f) == IF f.fmt \in UnidentifiedFormats THEN None ELSE f.fmt

\* server.py lines 620-627
ServerOutputFormat(original_format) ==
    IF original_format = "png" THEN "png"
    ELSE IF original_format \in {"jpeg", "jpg"} THEN "jpeg"
    ELSE "jpeg"

\* server.py lines 621, 623, 627: the IMWRITE_JPEG_QUALITY passed to imencode
ServerOutputQuality(original_format) == IF original_format = "png" THEN Absent ELSE JpegQuality

\* The patch as the caller sent it, alpha channel included, at the size at
\* which it is placed: what the overlay looks like to the caller.
SentPatch(file, placed) ==
    IF file.kind # "image" THEN NoImage
    ELSE IF <<file.img.w, file.img.h>> = <<placed.w, placed.h>> THEN file.img
    ELSE Resample(file.img, placed.w, placed.h)

\* =========================================================== generate_patch
\* ------------------------------------------------------------ region inputs
\* Grey values of the modelled regions: ink that the default thresholds take
\* for text, and paper that no threshold of the model takes for text.
RegionColours == {150, 220}
Paper == CHOOSE c \in RegionColours : \A d \in RegionColours : d <= c

\* SimpleLama.__call__ lines 273-277: padding to the next multiple of 8;
\* F.pad(mode="reflect") raises unless the padding is smaller than the side.
LamaBlock == 8
LamaPad(side) == (LamaBlock - (side % LamaBlock)) % LamaBlock

\* The modelled regions: the small sizes, and the smallest square that the
\* neural cleaner can pad.
LamaSide == CHOOSE s \in 1..LamaBlock : LamaPad(s) < s /\ \A u \in 1..(s - 1) : LamaPad(u) >= u
RegionSizes == (Widths \X Heights) \cup {<<LamaSide, LamaSide>>}

\* A region of paper whose pixel <<0, 0>> has colour c00.
RegionImage(w, h, c00) ==
    [w |-> w, h |-> h, ch |-> 3,
     pix |-> [p \in Pixels(w, h) |-> <<IF p = <<0, 0>> THEN c00 ELSE Paper, Opaque>>]]

RegionFiles ==
    {File("png", RegionImage(s[1], s[2], c)) : s \in RegionSizes, c \in RegionColours}
        \cup {BadBase64, Garbage}

\* request.cleanerThreshold
CleanerThresholds == {100}

\* request.polygonPoints: None, or a list of points with float coordinates,
\* given in halves like the overlay positions.
NoPolygon == [given |-> FALSE, pts |-> <<>>]
Polygon(pts) == [given |-> TRUE, pts |-> pts]
PolygonChoices ==
    {NoPolygon,
     Polygon(<< <<2, 2>> >>),
     Polygon(<< <<0, 0>>, <<3, 0>>, <<0, 4>> >>),
     Polygon(<< <<-4, -4>>, <<40, -4>>, <<-4, 40>> >>)}

\* ---------------------------------------------------- text_cleaner.py
OpenCVThreshold == 180     \* OpenCVCleaner.__init__ default threshold
LamaThreshold == 200       \* LamaCleaner.__init__ default threshold

\* text_cleaner is None
NoCleaner == [kind |-> "none", threshold |-> 0, dilate_iters |-> 0]
OpenCVCleaner(threshold) == [kind |-> "opencv", threshold |-> threshold, dilate_iters |-> 1]
LamaCleaner(threshold) == [kind |-> "lama", threshold |-> threshold, dilate_iters |-> 2]

\* create_cleaner(mode, lama_model); has_model: lama_model is not None
create_cleaner(mode, has_model) ==
    IF mode = "lama" /\ has_model THEN LamaCleaner(LamaThreshold) ELSE OpenCVCleaner(OpenCVThreshold)

\* Masks are sets of pixels, kept enumerated. 3x3 structuring element.
Near(p, q) ==
    /\ p[1] - q[1] \in {-1, 0, 1}
    /\ p[2] - q[2] \in {-1, 0, 1}

\* cv2.dilate / cv2.erode with a 3x3 kernel: pixels outside the image never
\* add to a dilation and never take from an erosion.
RECURSIVE Dilate(_, _, _, _)
Dilate(mask, w, h, iterations) ==
    IF iterations = 0 THEN mask
    ELSE Dilate({r : r \in {p \in Pixels(w, h) : \E q \in mask : Near(p, q)}}, w, h, iterations - 1)

RECURSIVE Erode(_, _, _, _)
Erode(mask, w, h, iterations) ==
    IF iterations = 0 THEN mask
    ELSE Erode({r : r \in {p \in mask : \A q \in Pixels(w, h) : Near(p, q) => q \in mask}}, w, h, iterations - 1)

\* cv2.threshold(gray, threshold, 255, THRESH_BINARY_INV): gray <= threshold
ThresholdMask(img, threshold) == {r : r \in {p \in Pixels(img.w, img.h) : img.pix[p][1] <= threshold}}

\* Inpainting (cv2.inpaint, or the generator of SimpleLama composited with
\* the mask): pixels outside the mask keep their value, pixels inside take
\* a value synthesised from the pixels outside, modelled by the lightest of
\* them; the size and the channel count are those of the input.
Inpaint(img, mask) ==
    LET known == {img.pix[p][1] : p \in {q \in Pixels(img.w, img.h) : q \notin mask}}
        fill == IF known = {} THEN Paper ELSE CHOOSE c \in known : \A d \in known : d <= c
    IN  [w |-> img.w, h |-> img.h, ch |-> 3,
         pix |-> [p \in Pixels(img.w, img.h) |-> <<IF p \in mask THEN fill ELSE img.pix[p][1], Opaque>>]]

\* OpenCVCleaner.clean
OpenCVClean(cleaner, img) ==
    Inpaint(img, Dilate(ThresholdMask(img, cleaner.threshold), img.w, img.h, cleaner.dilate_iters))

\* LamaCleaner.clean lines 85-107: the text mask. The adaptive threshold and
\* the edge detector only add pixels of local contrast to the global
\* threshold mask; of the three the model keeps the global threshold.
LamaMask(cleaner, img) ==
    LET global_mask == ThresholdMask(img, cleaner.threshold)
        closed == Erode(Dilate(global_mask, img.w, img.h, 2), img.w, img.h, 2)
        opened == Dilate(Erode(closed, img.w, img.h, 1), img.w, img.h, 1)
    IN  Dilate(opened, img.w, img.h, cleaner.dilate_iters)

\* SimpleLama.__call__ line 276: the reflect padding raises on a side that is
\* not larger than its padding.
SimpleLamaRaises(img) == LamaPad(img.w) >= img.w \/ LamaPad(img.h) >= img.h

\* Crop(img, w, h): the numpy slice img[:h, :w]
Crop(img, w, h) ==
    LET cw == IF w < img.w THEN w ELSE img.w
        chh == IF h < img.h THEN h ELSE img.h
    IN  [w |-> cw, h |-> chh, ch |-> img.ch, pix |-> [p \in Pixels(cw, chh) |-> img.pix[p]]]

\* F.pad(..., (0, pad_w, 0, pad_h), mode="reflect"): the image grown to the
\* right and to the bottom by mirrored pixels.
ReflectPad(img, pad_w, pad_h) ==
    LET mirror(i, n) == IF i < n THEN i ELSE 2 * (n - 1) - i
    IN  [w |-> img.w + pad_w, h |-> img.h + pad_h, ch |-> img.ch,
         pix |-> [p \in Pixels(img.w + pad_w, img.h + pad_h) |->
                    img.pix[<<mirror(p[1], img.w), mirror(p[2], img.h)>>]]]

\* SimpleLama.__call__: pad, inpaint inside the mask, crop back (line 293)
SimpleLama(img, mask) ==
    LET padded == ReflectPad(img, LamaPad(img.w), LamaPad(img.h))
    IN  Crop(Inpaint(padded, mask), img.w, img.h)

\* A cleaner call returns [ok, img]; ok = FALSE stands for an exception.
Raised == [ok |-> FALSE, img |-> NoImage]
Returned(img) == [ok |-> TRUE, img |-> img]

\* LamaCleaner.clean: debug_ok tells whether /app/debug_*.png can be written
\* (lines 117-118, 127); line 131 crops the result to the input's size.
LamaClean(cleaner, img, debug_ok) ==
    IF ~debug_ok \/ SimpleLamaRaises(img) THEN Raised
    ELSE Returned(Crop(SimpleLama(img, LamaMask(cleaner, img)), img.w, img.h))

\* clean_text_region lines 166-167: no cleaner given means OpenCVCleaner()
CleanerUsed(cleaner) == IF cleaner = NoCleaner THEN OpenCVCleaner(OpenCVThreshold) ELSE cleaner

\* clean_text_region
clean_text_region(img, cleaner, debug_ok) ==
    LET used == CleanerUsed(cleaner) IN
    IF used.kind = "lama" THEN LamaClean(used, img, debug_ok) ELSE Returned(OpenCVClean(used, img))

\* ------------------------------------------------------ polygon geometry
\* [(int(round(p.x)), int(round(p.y))) for p in request.polygonPoints]
PolyPoints(poly) == [i \in DOMAIN poly.pts |-> <<PyRound(poly.pts[i][1]), PyRound(poly.pts[i][2])>>]

\* Mutant of use_polygon_mask: any point makes a mask, as the truth test
\* "if request.polygonPoints" would.
UsePolygonMaskAnyPoint(poly) == poly.given /\ Len(poly.pts) >= 1

\* use_polygon_mask
UsePolygonMask(poly) == poly.given /\ Len(poly.pts) >= 3

Cross(a, b, p) == (b[1] - a[1]) * (p[2] - a[2]) - (b[2] - a[2]) * (p[1] - a[1])

\* cv2.fillPoly(mask, [pts], 255) for a convex polygon: the pixels inside
\* the polygon or on its boundary, clipped to the mask.
FillPoly(pts, w, h) ==
    LET n == Len(pts)
        side(i, p) == Cross(pts[i], pts[(i % n) + 1], p)
    IN  {r : r \in {p \in Pixels(w, h) : \/ \A i \in 1..n : side(i, p) >= 0
                                       \/ \A i \in 1..n : side(i, p) <= 0}}

\* cleaned_rgba[:, :, 3] = mask
WithAlphaMask(img, mask) ==
    [w |-> img.w, h |-> img.h, ch |-> 4,
     pix |-> [p \in Pixels(img.w, img.h) |-> <<img.pix[p][1], IF p \in mask THEN Opaque ELSE 0>>]]

\* ((min(xs) + max(xs)) // 2, (min(ys) + max(ys)) // 2) of the rounded points
PolyCentre(pts) ==
    LET xs == {pts[i][1] : i \in DOMAIN pts}
        ys == {pts[i][2] : i \in DOMAIN pts}
        lo(S) == CHOOSE v \in S : \A u \in S : v <= u
        hi(S) == CHOOSE v \in S : \A u \in S : u <= v
    IN  <<(lo(xs) + hi(xs)) \div 2, (lo(ys) + hi(ys)) \div 2>>

\* Mutant of the transparent buffer: the alpha channel is opaque, as after
\* cv2.cvtColor(BGR2BGRA).
ZerosOpaque(height, width) ==
    [w |-> width, h |-> height, ch |-> 4, pix |-> [p \in Pixels(width, height) |-> <<0, Opaque>>]]

\* np.zeros((height, width, 4), dtype=np.uint8)
Zeros(height, width) ==
    [w |-> width, h |-> height, ch |-> 4, pix |-> [p \in Pixels(width, height) |-> <<0, 0>>]]

\* image.shape[:2]
Shape(img) == <<img.h, img.w>>

\* Mutant of the reported size: the shape's order (height, width) is kept.
PatchSizeAsShape(width, height) == <<height, width>>

\* size=[width, height] of the PatchResponse
PatchSize(width, height) == <<width, height>>

\* ---------------------------------------------------------- text and fonts
\* request.translatedText: a list of lines, each a sequence of characters.
Texts == {<<>>, << <<"A">> >>, << <<"A", "B">>, <<"C">> >>}
FontSizes == {1, 3}
FontFamilies == {"regular", "bold", "italic"}
FontTypes == {"bold", "comic"}
TextColours == {0}
\* <<request.strokeColor, request.strokeWidth>>
Strokes == {<<Absent, 0>>, <<255, 1>>, <<255, 2>>}
Spacing == 4               \* spacing=4 of the multiline text calls

\* What /app/fonts holds for a family: a font file, nothing, or a file that
\* ImageFont.truetype cannot open.
FontFileStates == {"ok", "missing", "corrupt"}
FontFiles ==
    {[f \in FontFamilies |-> s] : s \in FontFileStates}
        \cup {[f \in FontFamilies |-> IF f = "bold" THEN "missing" ELSE "ok"]}

\* "\n".join(request.translatedText)
RECURSIVE Join(_)
Join(lines) ==
    IF lines = <<>> THEN <<>>
    ELSE IF Len(lines) = 1 THEN lines[1]
    ELSE lines[1] \o <<"\n">> \o Join(Tail(lines))

\* The lines PIL splits a multiline text into.
RECURSIVE SplitLines(_)
SplitLines(text) ==
    LET breaks == {i \in 1..Len(text) : text[i] = "\n"} IN
    IF breaks = {} THEN <<text>>
    ELSE LET i == CHOOSE j \in breaks : \A k \in breaks : j <= k
         IN  <<SubSeq(text, 1, i - 1)>> \o SplitLines(SubSeq(text, i + 1, Len(text)))

\* get_font_path: [ok, family]; ok = FALSE stands for FileNotFoundError
get_font_path(font_type, files) ==
    LET family == IF font_type \in FontFamilies THEN font_type ELSE "regular"
    IN  [ok |-> files[family] # "missing", family |-> family]

\* ImageFont.truetype(font_path, size): [ok, font]; ok = FALSE stands for the
\* exception it raises on a file it cannot open.
truetype(family, size, files) ==
    [ok |-> files[family] = "ok" /\ size > 0,
     font |-> [kind |-> "truetype", family |-> family, size |-> size]]

\* ImageFont.load_default(): the built-in bitmap font, of one fixed size
load_default == [kind |-> "default", family |-> "default", size |-> 1]

\* Font metrics: every glyph of a font is a box of size x size pixels; a
\* truetype font leaves one row free above its glyphs, the bitmap font none.
GlyphTop(font) == IF font.kind = "truetype" THEN 1 ELSE 0

MaxOf(S) == IF S = {} THEN 0 ELSE CHOOSE v \in S : \A u \in S : u <= v
TextWidth(lines, font) == MaxOf({Len(lines[i]) * font.size : i \in DOMAIN lines})

\* draw.multiline_textbbox((0, 0), text, font, spacing): <<left, top, right, bottom>>
multiline_textbbox(text, font, spacing) ==
    IF text = <<>> THEN <<0, 0, 0, 0>>
    ELSE LET lines == SplitLines(text)
             n == Len(lines)
         IN  <<0, GlyphTop(font), TextWidth(lines, font),
               GlyphTop(font) + n * font.size + (n - 1) * spacing>>

\* Mutant of the painted pixels: an empty text paints one glyph box.
TextFootprintEmptyGlyph(x, y, text, font, spacing, w, h) ==
    LET lines == IF text = <<>> THEN << <<"?">> >> ELSE SplitLines(text)
        line_x(i) == x + (TextWidth(lines, font) - Len(lines[i]) * font.size) \div 2
        line_y(i) == y + GlyphTop(font) + (i - 1) * (font.size + spacing)
    IN  {r : r \in {p \in Pixels(w, h) : \E i \in DOMAIN lines :
            /\ p[1] >= line_x(i) /\ p[1] < line_x(i) + Len(lines[i]) * font.size
            /\ p[2] >= line_y(i) /\ p[2] < line_y(i) + font.size}}

\* The pixels of a w x h image that draw.multiline_text((x, y), text, font,
\* spacing, align="center") paints.
TextFootprint(x, y, text, font, spacing, w, h) ==
    IF text = <<>> THEN {}
    ELSE LET lines == SplitLines(text)
             line_x(i) == x + (TextWidth(lines, font) - Len(lines[i]) * font.size) \div 2
             line_y(i) == y + GlyphTop(font) + (i - 1) * (font.size + spacing)
         IN  {r : r \in {p \in Pixels(w, h) : \E i \in DOMAIN lines :
                 /\ p[1] >= line_x(i) /\ p[1] < line_x(i) + Len(lines[i]) * font.size
                 /\ p[2] >= line_y(i) /\ p[2] < line_y(i) + font.size}}

\* Painting a footprint with an opaque fill.
Paint(img, footprint, colour) ==
    [w |-> img.w, h |-> img.h, ch |-> img.ch,
     pix |-> [p \in Pixels(img.w, img.h) |-> IF p \in footprint THEN <<colour, Opaque>> ELSE img.pix[p]]]

\* range(lo, hi + 1), as a sequence
RangeSeq(lo, hi) == [i \in 1..(hi - lo + 1) |-> lo + i - 1]

\* The offsets at which "for dx in vals: for dy in vals" draws, in loop
\* order: the pair (0, 0) is skipped.
StrokeOffsets(vals) ==
    LET n == Len(vals)
        all == [k \in 1..(n * n) |-> <<vals[((k - 1) \div n) + 1], vals[((k - 1) % n) + 1]>>]
        Drawn(o) == o # <<0, 0>>
    IN  SelectSeq(all, Drawn)

\* Stroke offsets: range(-sw, sw + 1) squared, or [-sw, 0, sw] squared,
\* both without (0, 0).
StrokeSquare(sw) == StrokeOffsets(RangeSeq(0 - sw, sw))
StrokeEight(sw) == StrokeOffsets(<<0 - sw, 0, sw>>)

\* How a renderer places the text: the path taken, the kind of anchor and
\* twice the anchor, and the measured bounding box.
Layout(path, anchor_kind, anchor2, bbox) ==
    [path |-> path, anchorKind |-> anchor_kind, anchor2 |-> anchor2, bbox |-> bbox]
NoLayout == Layout(None, None, <<0, 0>>, <<0, 0, 0, 0>>)

\* The stroke passes, then the main text on top. passes lists the
\* multiline_text calls in the order they are made.
DrawLayers(img, x, y, text, font, spacing, offsets, stroke_colour, text_colour, layout) ==
    LET stroke == UNION {TextFootprint(x + offsets[i][1], y + offsets[i][2], text, font, spacing, img.w, img.h) : i \in DOMAIN offsets}
        main == TextFootprint(x, y, text, font, spacing, img.w, img.h)
    IN  [ok |-> TRUE, img |-> Paint(Paint(img, stroke, stroke_colour), main, text_colour),
         font |-> font.kind, touched |-> stroke \cup main,
         passes |-> [i \in DOMAIN offsets |-> [offset |-> offsets[i], fill |-> stroke_colour]]
                        \o <<[offset |-> <<0, 0>>, fill |-> text_colour]>>,
         origin |-> <<x, y>>, layout |-> layout]

RenderRaised ==
    [ok |-> FALSE, img |-> NoImage, font |-> None, touched |-> {}, passes |-> <<>>,
     origin |-> <<0, 0>>, layout |-> NoLayout]

\* ------------------------------------------------------------ the renderers
\* Mutant of the stroke test: the stroke colour is not looked at.
StrokeOnWidthOnly(stroke_color, stroke_width) == stroke_width > 0

StrokeOn(stroke_color, stroke_width) == stroke_color # Absent /\ stroke_width > 0

\* text_renderer.render_text: the font is loaded without a fallback (lines
\* 112-113); the text is centred in the region (lines 131-132).
render_text(img, text, width, height, font_size, font_type, text_color, stroke_color, stroke_width, files) ==
    LET font_path == get_font_path(font_type, files)
        loaded == truetype(font_path.family, font_size, files)
        bbox == multiline_textbbox(text, loaded.font, Spacing)
        text_w == bbox[3] - bbox[1]
        text_h == bbox[4] - bbox[2]
        x == ((width - text_w) \div 2) - bbox[1]
        y == ((height - text_h) \div 2) - bbox[2]
    IN  IF ~font_path.ok \/ ~loaded.ok THEN RenderRaised
        ELSE DrawLayers(ToBGR(img), x, y, text, loaded.font, Spacing,
                        IF StrokeOn(stroke_color, stroke_width) THEN StrokeSquare(stroke_width) ELSE <<>>,
                        stroke_color, text_color,
                        Layout("render_text", "image", <<width, height>>, bbox))

\* handlers/patch.py _render_text_on_rgba: get_font_path is outside the try
\* (line 73), truetype inside it (lines 74-78); the anchor is the centre of
\* the polygon's bounding box whenever the request has any point (line 84).
render_text_on_rgba(cleaned_image, text, font_size, font_type, text_color, stroke_color, stroke_width, polygon, width, height, files) ==
    LET font_path == get_font_path(font_type, files)
        loaded == truetype(font_path.family, font_size, files)
        font == IF loaded.ok THEN loaded.font ELSE load_default
        center == IF polygon.given /\ polygon.pts # <<>>
                  THEN PolyCentre(PolyPoints(polygon))
                  ELSE <<width \div 2, height \div 2>>
        bbox == multiline_textbbox(text, font, Spacing)
        text_width == bbox[3] - bbox[1]
        text_height == bbox[4] - bbox[2]
        text_x == center[1] - (text_width \div 2)
        text_y == center[2] - (text_height \div 2)
    IN  IF ~font_path.ok THEN RenderRaised
        ELSE DrawLayers(cleaned_image, text_x, text_y, text, font, Spacing,
                        IF StrokeOn(stroke_color, stroke_width) THEN StrokeSquare(stroke_width) ELSE <<>>,
                        stroke_color, text_color,
                        Layout("render_text_on_rgba",
                               IF polygon.given /\ polygon.pts # <<>> THEN "polygon" ELSE "image",
                               <<2 * center[1], 2 * center[2]>>, bbox))

\* server.py generate_patch lines 410-484: the polygon path renders inline
ServerRenderPolygon(cleaned_image, text, font_size, font_type, text_color, stroke_color, stroke_width, polygon, files) ==
    LET font_path == get_font_path(font_type, files)
        loaded == truetype(font_path.family, font_size, files)
        font == IF loaded.ok THEN loaded.font ELSE load_default
        poly_center == PolyCentre(PolyPoints(polygon))
        bbox == multiline_textbbox(text, font, Spacing)
        text_width == bbox[3] - bbox[1]
        text_height == bbox[4] - bbox[2]
        text_x == poly_center[1] - (text_width \div 2) - bbox[1]
        text_y == poly_center[2] - (text_height \div 2) - bbox[2]
    IN  IF ~font_path.ok THEN RenderRaised
        ELSE DrawLayers(cleaned_image, text_x, text_y, text, font, Spacing,
                        IF StrokeOn(stroke_color, stroke_width) THEN StrokeEight(stroke_width) ELSE <<>>,
                        stroke_color, text_color,
                        Layout("server_polygon", "polygon", <<2 * poly_center[1], 2 * poly_center[2]>>, bbox))

\* utils.encode_image_to_base64(image, "png") and PIL's save(format='PNG'):
\* a PNG file of the image, with the channels it has.
EncodePng(img) == File("png", img)

\* ------------------------------------------------- calls of the renderers
\* The images the renderers are called on: a cleaned region, the transparent
\* buffer, and a cleaned region behind a polygon mask.
RenderSide == 3
Bases3 == {RegionImage(RenderSide, RenderSide, c) : c \in RegionColours}
Bases4 ==
    {Zeros(RenderSide, RenderSide)}
        \cup {WithAlphaMask(ToBGRA(b), FillPoly(<< <<0, 0>>, <<2, 0>>, <<0, 2>> >>, b.w, b.h)) : b \in Bases3}

\* <<stroke colour, stroke width>>: every colour with every width
RenderStrokes == {Absent, 255} \X {0, 1, 2}

\* request.textColor, request.strokeColor, request.strokeWidth
Colours(text_color, stroke_color, stroke_width) ==
    [textColor |-> text_color, strokeColor |-> stroke_color, strokeWidth |-> stroke_width]
NoColours == Colours(Absent, Absent, 0)

\* A call of a renderer and what it returned.
Call(path, base, text, colours, r) ==
    [path |-> path, base |-> base, text |-> text, colours |-> colours, r |-> r]
NoCall == Call(None, NoImage, <<>>, NoColours, RenderRaised)

\* ------------------------------------------------------------- state.py
\* The module-level names of state.py (lines 39-44 and its constants).
StateAttrs ==
    {"BUILD_ID", "OCR_MODEL_NAME", "ANIMELAMA_MODEL_NAME", "YOLO_MODEL_REPO", "YOLO_MODEL_FILE",
     "ocr_instance", "animelama_instance", "yolo_instance", "ocr_ready", "animelama_ready", "yolo_ready"}

\* handlers/patch.py _get_cleaner: [ok, cleaner]; reading a name the state
\* module does not define raises AttributeError (ok = FALSE).
get_cleaner(threshold, mode, cleaner) ==
    IF ~({"cleaner_mode", "text_cleaner"} \subseteq StateAttrs) THEN [ok |-> FALSE, cleaner |-> NoCleaner]
    ELSE IF mode = "lama" /\ cleaner # NoCleaner /\ cleaner.kind = "lama"
    THEN [ok |-> TRUE, cleaner |-> LamaCleaner(threshold)]
    ELSE [ok |-> TRUE, cleaner |-> cleaner]

\* ================================================================ state
VARIABLES
    impl,        \* which merge_patches serves the request: "handler" | "server"
    mpc,         \* position in merge_patches: "idle" | "loop" | "round" | "place" | "done"
    idx,         \* overlays of request.patches taken so far
    pageFormat,  \* container format of the request's page file
    pageSize,    \* <<page_w, page_h>> of the decoded page
    buf,         \* the working page buffer (page_rgba / page_pil)
    cur,         \* the overlay in hand: the patch as placed and as sent
    pos,         \* the rounded position <<x, y>> of the overlay in hand
    outcome,     \* what became of the overlay processed last: "none" | "undecodable" | "skipped" | "blended"
    mresp,       \* the response, NoResponse until the call returns or raises
    cleaner_mode,    \* server.py global cleaner_mode
    text_cleaner,    \* server.py global text_cleaner
    cleaner_ready,   \* server.py global cleaner_ready
    lpc,             \* position of the _load_cleaner_model thread
    gimpl,           \* which generate_patch serves the request: "handler" | "server"
    gpc,             \* position in generate_patch: "idle" | "clean" | "render" | "done"
    capturedImage,   \* request.capturedImage
    alphaBackground, \* request.alphaBackground
    polygonPoints,   \* request.polygonPoints
    image,           \* the decoded region
    cleaned_image,   \* the buffer the text is rendered on
    cleanLog,        \* the cleaners whose clean() the request has called
    atClean,         \* the cleaner globals and the request's cleanerThreshold when the request reached the cleaning step
    gresp,           \* the response of generate_patch
    ocr_instance,        \* state.ocr_instance
    ocr_ready,           \* state.ocr_ready
    animelama_instance,  \* state.animelama_instance
    animelama_ready,     \* state.animelama_ready
    yolo_instance,       \* state.yolo_instance
    yolo_ready,          \* state.yolo_ready
    opc,                 \* position of the _load_ocr_model thread
    apc,                 \* position of the _load_animelama_model thread
    ypc,                 \* position of the _load_yolo_model thread
    endpoint,            \* the handler serving the request in hand
    payload,             \* the request's image (and mask)
    epc,                 \* position in the handler: "idle" | "checked" | "done"
    sent,                \* requests the client has sent so far
    refused,             \* the endpoints that answered the client with 503 so far
    loadedAtCheck,       \* whether the handler's model was loaded when the handler checked it
    checks,              \* readiness checks the handler made for the request
    decodes,             \* payload parts the handler decoded for the request
    calls,               \* calls of the model the handler made for the request
    eresp,               \* the HTTP status of the response, 0 until there is one
    running,             \* the invocation the event loop is running, 0 for none
    ipc,                 \* position of each invocation in its cleaning stage
    iregion,             \* each invocation's decoded region
    icleaner,            \* the cleaner each invocation cleans with
    iresult,             \* each invocation's cleaned region
    debug_files,         \* the files /app/debug_input.png, debug_mask.png, debug_output.png
    writers,             \* the invocations that have written each debug file
    server_ocr_instance, \* server.py global ocr_instance
    server_ocr_ready,    \* server.py global ocr_ready
    sopc,                \* position of server.py's _load_ocr_model thread
    hresp,               \* the answer of the last health_check call
    rcall,               \* the last call of a renderer: its arguments and its result
    ocall,               \* the last overlay prepared by merge_patches: its fields and the patch placed
    lcall                \* the last call of a neural inpainter: the input's size, the padding, the result

mvars == <<impl, mpc, idx, pageFormat, pageSize, buf, cur, pos, outcome, mresp>>
cvars == <<cleaner_mode, text_cleaner, cleaner_ready, lpc>>
rvars == <<gimpl, gpc, capturedImage, alphaBackground, polygonPoints, image, cleaned_image, cleanLog, atClean, gresp>>
pvars == <<cvars, rvars>>
lvars == <<ocr_instance, ocr_ready, animelama_instance, animelama_ready, yolo_instance, yolo_ready, opc, apc, ypc>>
evars == <<endpoint, payload, epc, sent, refused, loadedAtCheck, checks, decodes, calls, eresp>>
xvars == <<running, ipc, iregion, icleaner, iresult, debug_files, writers>>
hvars == <<server_ocr_instance, server_ocr_ready, sopc, hresp>>
fvars == <<rcall, ocall, lcall>>
ovars == <<lvars, evars, xvars, hvars, fvars>>
vars == <<mvars, pvars, ovars>>

NoCur == [placed |-> NoImage, sent |-> NoImage]

NoResponse == [status |-> "none", code |-> 0, fmt |-> None, quality |-> Absent, img |-> NoImage]
HttpError(code) == [status |-> "error", code |-> code, fmt |-> None, quality |-> Absent, img |-> NoImage]
Success(fmt, quality, img) == [status |-> "success", code |-> 200, fmt |-> fmt, quality |-> quality, img |-> img]

NoFile == [kind |-> "none"]

\* The fields of one overlay and the patch that merge_patches goes on to
\* place; placed = NoImage when preparing the overlay raised.
Overlay(by, file, width, height, placed) ==
    [by |-> by, file |-> file, width |-> width, height |-> height, placed |-> placed]
NoOverlay == Overlay("none", NoFile, Absent, Absent, NoImage)

\* One call of a neural inpainter on a w x h image: the padding computed
\* for it and the returned [ok, img].
LamaCall(by, w, h, pad_w, pad_h, r) ==
    [by |-> by, w |-> w, h |-> h, pad_w |-> pad_w, pad_h |-> pad_h, r |-> r]
NoLamaCall == LamaCall("none", 0, 0, 0, 0, Raised)
NotAtClean == [required |-> FALSE, ready |-> FALSE, configured |-> NoCleaner, threshold |-> 0]

\* The response of generate_patch, with what the renderer did: the font
\* type asked for, the family it resolves to, the state of that family's
\* font file, the font used, the pixels the draws touched, the colours
\* asked for, the draw calls made, the draw origin and the layout.
NoPatchResponse ==
    [status |-> "none", code |-> 0, size |-> <<0, 0>>, patchImage |-> NoFile,
     fontType |-> None, fontFamily |-> None, fontFile |-> None, font |-> None, touched |-> {},
     colours |-> NoColours, passes |-> <<>>, origin |-> <<0, 0>>, layout |-> NoLayout]
PatchError(code) == [NoPatchResponse EXCEPT !.status = "error", !.code = code]
PatchFailure(code, font_type, font_path, font_file) ==
    [NoPatchResponse EXCEPT !.status = "error", !.code = code, !.fontType = font_type,
                            !.fontFamily = font_path.family, !.fontFile = font_file]
PatchSuccess(size, file, font_type, font_path, font_file, r, colours) ==
    [status |-> "success", code |-> 200, size |-> size, patchImage |-> file,
     fontType |-> font_type, fontFamily |-> font_path.family, fontFile |-> font_file,
     font |-> r.font, touched |-> r.touched,
     colours |-> colours, passes |-> r.passes, origin |-> r.origin, layout |-> r.layout]

\* The requests a client sends to the model endpoints.
MaxRequests == 2

\* A base64 field holds an image, bytes that are no image, or no base64; an
\* uploaded file holds an image or bytes that are no image.
Base64Parts == {"image", "garbage", "badb64"}
FileParts == {"image", "garbage"}
Payload(image_part, mask_part) == [image |-> image_part, mask |-> mask_part]
NoPayload == Payload(None, None)

\* How far a model of state.py is loaded: its instance is None ("no"), the
\* instance is set and the ready flag is not ("partly"), both are set ("yes").
Loaded(instance, ready) ==
    IF instance = None THEN "no" ELSE IF ready THEN "yes" ELSE "partly"

\* Two invocations of generate_patch in one process, and the files that
\* LamaCleaner.clean saves.
Invocations == {1, 2}
DebugFiles == {"/app/debug_input.png", "/app/debug_mask.png", "/app/debug_output.png"}
MaskFile(mask) == [kind |-> "mask", pix |-> mask]

\* The answer of health_check: the HealthResponse, or the HTTP 500 of an
\* exception, with the readiness flags as they were when the call was made.
Health(by, code, status, model_loaded, mode, seen_ocr, seen_cleaner) ==
    [by |-> by, code |-> code, status |-> status, model_loaded |-> model_loaded, cleaner_mode |-> mode,
     ocr_ready |-> seen_ocr, cleaner_ready |-> seen_cleaner]
NoHealth == Health(None, 0, None, FALSE, None, FALSE, FALSE)

Init ==
    /\ impl = None
    /\ mpc = "idle"
    /\ idx = 0
    /\ pageFormat = None
    /\ pageSize = <<0, 0>>
    /\ buf = NoImage
    /\ cur = NoCur
    /\ pos = <<0, 0>>
    /\ outcome = "none"
    /\ mresp = NoResponse
    /\ cleaner_mode = "opencv"
    /\ text_cleaner = NoCleaner
    /\ cleaner_ready = FALSE
    /\ lpc = "start"
    /\ gimpl = None
    /\ gpc = "idle"
    /\ capturedImage = NoFile
    /\ alphaBackground = FALSE
    /\ polygonPoints = NoPolygon
    /\ image = NoImage
    /\ cleaned_image = NoImage
    /\ cleanLog = <<>>
    /\ atClean = NotAtClean
    /\ gresp = NoPatchResponse
    /\ ocr_instance = None
    /\ ocr_ready = FALSE
    /\ animelama_instance = None
    /\ animelama_ready = FALSE
    /\ yolo_instance = None
    /\ yolo_ready = FALSE
    /\ opc = "start"
    /\ apc = "start"
    /\ ypc = "start"
    /\ endpoint = None
    /\ payload = NoPayload
    /\ epc = "idle"
    /\ sent = 0
    /\ refused = {}
    /\ loadedAtCheck = None
    /\ checks = 0
    /\ decodes = 0
    /\ calls = 0
    /\ eresp = 0
    /\ running = 0
    /\ ipc = [i \in Invocations |-> "idle"]
    /\ iregion = [i \in Invocations |-> NoImage]
    /\ icleaner = [i \in Invocations |-> NoCleaner]
    /\ iresult = [i \in Invocations |-> NoImage]
    /\ debug_files = [f \in DebugFiles |-> NoFile]
    /\ writers = [f \in DebugFiles |-> {}]
    /\ server_ocr_instance = None
    /\ server_ocr_ready = FALSE
    /\ sopc = "start"
    /\ hresp = NoHealth
    /\ rcall = NoCall
    /\ ocall = NoOverlay
    /\ lcall = NoLamaCall

\* ------------------------------------------- handlers/merge.py merge_patches
\* lines 28-37: decode the page, convert it to BGRA
HandlerMergeBegin ==
    /\ mpc = "idle"
    /\ \E page \in PageFiles :
        LET page_image == decode_base64_image(page) IN
        /\ impl' = "handler"
        /\ IF page_image = NoImage
           THEN /\ mpc' = "done"
                /\ mresp' = HttpError(500)
                /\ UNCHANGED <<pageFormat, pageSize, buf>>
           ELSE /\ mpc' = "loop"
                /\ pageFormat' = page.fmt
                /\ pageSize' = <<page_image.w, page_image.h>>
                /\ buf' = IF page_image.ch = 3 THEN ToBGRA(page_image) ELSE page_image
                /\ mresp' = NoResponse
    /\ UNCHANGED <<idx, cur, pos, outcome>>
    /\ UNCHANGED <<pvars, ovars>>

\* lines 40-53: take the next overlay of request.patches, decode and resize
\* it; an exception of the decode leaves the loop and is caught at line 80
HandlerMergeTake ==
    /\ mpc = "loop" /\ impl = "handler" /\ idx < MaxOverlays
    /\ \E file \in PatchFiles, width \in TargetWidths, height \in TargetHeights :
        LET patch_rgba == HandlerPatch(file, width, height) IN
        /\ idx' = idx + 1
        /\ IF patch_rgba = NoImage
           THEN /\ mpc' = "done"
                /\ outcome' = "undecodable"
                /\ mresp' = HttpError(500)
                /\ UNCHANGED cur
           ELSE /\ mpc' = "round"
                /\ cur' = [placed |-> patch_rgba, sent |-> SentPatch(file, patch_rgba)]
                /\ UNCHANGED <<outcome, mresp>>
    /\ UNCHANGED <<impl, pageFormat, pageSize, buf, pos>>
    /\ UNCHANGED <<pvars, ovars>>

\* lines 54-55: x = int(round(patch.x)), y = int(round(patch.y))
HandlerMergeRound ==
    /\ mpc = "round" /\ impl = "handler"
    /\ \E x2 \in XCoords2, y2 \in YCoords2 : pos' = <<PyRound(x2), PyRound(y2)>>
    /\ mpc' = "place"
    /\ UNCHANGED <<impl, idx, pageFormat, pageSize, buf, cur, outcome, mresp>>
    /\ UNCHANGED <<pvars, ovars>>

\* lines 57-67: bounds check, then alpha blend into page_rgba
HandlerMergePlace ==
    /\ mpc = "place" /\ impl = "handler"
    /\ buf' = HandlerPlace(buf, cur.placed, pos[1], pos[2])
    /\ outcome' = IF HandlerOutOfBounds(pos[1], pos[2], cur.placed.w, cur.placed.h, buf.w, buf.h)
                  THEN "skipped" ELSE "blended"
    /\ mpc' = "loop"
    /\ cur' = NoCur
    /\ pos' = <<0, 0>>
    /\ UNCHANGED <<impl, idx, pageFormat, pageSize, mresp>>
    /\ UNCHANGED <<pvars, ovars>>

\* lines 69-78: after the last overlay convert back to BGR, encode, return
HandlerMergeEncode ==
    /\ mpc = "loop" /\ impl = "handler"
    /\ mpc' = "done"
    /\ mresp' = Success(HandlerOutputFormat(pageFormat), HandlerOutputQuality(pageFormat), ToBGR(buf))
    /\ UNCHANGED <<impl, idx, pageFormat, pageSize, buf, cur, pos, outcome>>
    /\ UNCHANGED <<pvars, ovars>>

\* ------------------------------------------------- server.py merge_patches
\* lines 552-569: decode the page, detect its format, convert it to PIL RGB
ServerMergeBegin ==
    /\ mpc = "idle"
    /\ \E page \in PageFiles :
        /\ impl' = "server"
        /\ IF ~B64Ok(page)
           THEN /\ mpc' = "done"
                /\ mresp' = HttpError(400)
                /\ UNCHANGED <<pageFormat, pageSize, buf>>
           ELSE IF ImreadColor(page) = NoImage
           THEN /\ mpc' = "done"
                /\ mresp' = HttpError(500)
                /\ UNCHANGED <<pageFormat, pageSize, buf>>
           ELSE IF ImageOpenFormat(page) = None
           THEN /\ mpc' = "done"
                /\ mresp' = HttpError(500)
                /\ pageSize' = <<page.img.w, page.img.h>>
                /\ UNCHANGED <<pageFormat, buf>>
           ELSE /\ mpc' = "loop"
                /\ pageFormat' = ImageOpenFormat(page)
                /\ pageSize' = <<page.img.w, page.img.h>>
                /\ buf' = ImreadColor(page)
                /\ mresp' = NoResponse
    /\ UNCHANGED <<idx, cur, pos, outcome>>
    /\ UNCHANGED <<pvars, ovars>>

\* lines 572-599: take the next overlay, decode and resize it; a failed
\* decode skips the overlay (lines 579-581, or the except of line 612)
ServerMergeTake ==
    /\ mpc = "loop" /\ impl = "server" /\ idx < MaxOverlays
    /\ \E file \in PatchFiles, width \in TargetWidths, height \in TargetHeights :
        LET patch_pil == ServerPatch(file, width, height) IN
        /\ idx' = idx + 1
        /\ IF patch_pil = NoImage
           THEN /\ outcome' = "undecodable"
                /\ UNCHANGED <<mpc, cur>>
           ELSE /\ mpc' = "round"
                /\ cur' = [placed |-> patch_pil, sent |-> SentPatch(file, patch_pil)]
                /\ UNCHANGED outcome
    /\ UNCHANGED <<impl, pageFormat, pageSize, buf, pos, mresp>>
    /\ UNCHANGED <<pvars, ovars>>

\* lines 602-603: x_pos = int(round(patch.x)), y_pos = int(round(patch.y))
ServerMergeRound ==
    /\ mpc = "round" /\ impl = "server"
    /\ \E x2 \in XCoords2, y2 \in YCoords2 : pos' = <<PyRound(x2), PyRound(y2)>>
    /\ mpc' = "place"
    /\ UNCHANGED <<impl, idx, pageFormat, pageSize, buf, cur, outcome, mresp>>
    /\ UNCHANGED <<pvars, ovars>>

\* lines 607-610: paste the patch into page_pil
ServerMergePlace ==
    /\ mpc = "place" /\ impl = "server"
    /\ buf' = ServerPaste(buf, cur.placed, pos[1], pos[2])
    /\ outcome' = "blended"
    /\ mpc' = "loop"
    /\ cur' = NoCur
    /\ pos' = <<0, 0>>
    /\ UNCHANGED <<impl, idx, pageFormat, pageSize, mresp>>
    /\ UNCHANGED <<pvars, ovars>>

\* lines 616-640: after the last overlay encode in the page's format, return
ServerMergeEncode ==
    /\ mpc = "loop" /\ impl = "server"
    /\ mpc' = "done"
    /\ mresp' = Success(ServerOutputFormat(pageFormat), ServerOutputQuality(pageFormat), buf)
    /\ UNCHANGED <<impl, idx, pageFormat, pageSize, buf, cur, pos, outcome>>
    /\ UNCHANGED <<pvars, ovars>>

MergeNext ==
    \/ HandlerMergeBegin
    \/ HandlerMergeTake
    \/ HandlerMergeRound
    \/ HandlerMergePlace
    \/ HandlerMergeEncode
    \/ ServerMergeBegin
    \/ ServerMergeTake
    \/ ServerMergeRound
    \/ ServerMergePlace
    \/ ServerMergeEncode

SpecMerge == Init /\ [][MergeNext]_vars

\* --------------------------------------- server.py _load_cleaner_model
\* os.environ.get("CLEANER_MODE", "lama")
CleanerModes == {"lama", "opencv"}
\* a value of CLEANER_MODE that is neither of the two
OtherModes == {"fast"}

\* line 154: cleaner_mode is set from the environment
LoadCleanerReadEnvFrom(modes) ==
    /\ lpc = "start"
    /\ \E mode \in modes : cleaner_mode' = mode
    /\ lpc' = "configured"
    /\ UNCHANGED <<text_cleaner, cleaner_ready>>
    /\ UNCHANGED <<rvars, mvars, ovars>>

LoadCleanerReadEnv == LoadCleanerReadEnvFrom(CleanerModes)
LoadCleanerReadAnyEnv == LoadCleanerReadEnvFrom(CleanerModes \cup OtherModes)

\* lines 157-161 and 170-172: the cleaner is created; SimpleLama(...) may raise
LoadCleanerCreate ==
    /\ lpc = "configured"
    /\ IF cleaner_mode = "lama"
       THEN \E loads \in BOOLEAN :
               IF loads
               THEN /\ text_cleaner' = create_cleaner("lama", TRUE)
                    /\ lpc' = "created"
               ELSE /\ lpc' = "failed"
                    /\ UNCHANGED text_cleaner
       ELSE /\ text_cleaner' = create_cleaner("opencv", FALSE)
            /\ lpc' = "created"
    /\ UNCHANGED <<cleaner_mode, cleaner_ready>>
    /\ UNCHANGED <<rvars, mvars, ovars>>

\* Mutant of the except branch: cleaner_mode is left as it was.
LoadCleanerFallbackModeKept ==
    /\ lpc = "failed"
    /\ lpc' = "fallback"
    /\ UNCHANGED <<cleaner_mode, text_cleaner, cleaner_ready>>
    /\ UNCHANGED <<rvars, mvars, ovars>>

\* line 167: the except branch resets cleaner_mode
LoadCleanerFallbackMode ==
    /\ lpc = "failed"
    /\ cleaner_mode' = "opencv"
    /\ lpc' = "fallback"
    /\ UNCHANGED <<text_cleaner, cleaner_ready>>
    /\ UNCHANGED <<rvars, mvars, ovars>>

\* line 168: text_cleaner = create_cleaner("opencv")
LoadCleanerFallbackCreate ==
    /\ lpc = "fallback"
    /\ text_cleaner' = create_cleaner("opencv", FALSE)
    /\ lpc' = "created"
    /\ UNCHANGED <<cleaner_mode, cleaner_ready>>
    /\ UNCHANGED <<rvars, mvars, ovars>>

\* lines 162, 169, 173: cleaner_ready = True
LoadCleanerReady ==
    /\ lpc = "created"
    /\ cleaner_ready' = TRUE
    /\ lpc' = "done"
    /\ UNCHANGED <<cleaner_mode, text_cleaner>>
    /\ UNCHANGED <<rvars, mvars, ovars>>

\* ------------------------------------------ handlers/patch.py generate_patch
\* lines 146-147: decode the region; any exception is answered with 500
HandlerPatchBegin ==
    /\ gpc = "idle"
    /\ \E file \in RegionFiles, alpha \in BOOLEAN :
        /\ gimpl' = "handler"
        /\ capturedImage' = file
        /\ alphaBackground' = alpha
        /\ image' = decode_base64_image(file)
        /\ IF decode_base64_image(file) = NoImage
           THEN gpc' = "done" /\ gresp' = PatchError(500)
           ELSE gpc' = "clean" /\ gresp' = NoPatchResponse
    /\ UNCHANGED <<polygonPoints, cleaned_image, cleanLog, atClean>>
    /\ UNCHANGED <<cvars, mvars, ovars>>

\* lines 154-181: the transparent buffer, or the cleaned region with or
\* without the polygon as its alpha channel
HandlerPatchClean ==
    /\ gpc = "clean" /\ gimpl = "handler"
    /\ \E polygon \in PolygonChoices, threshold \in CleanerThresholds, debug_ok \in BOOLEAN :
        LET height == Shape(image)[1]
            width == Shape(image)[2]
            \* state.cleaner_mode and state.text_cleaner, the names _get_cleaner reads
            got == get_cleaner(threshold, cleaner_mode, text_cleaner)
            cleaned == IF got.ok THEN clean_text_region(image, got.cleaner, debug_ok) ELSE Raised
        IN
        /\ polygonPoints' = polygon
        /\ atClean' = [required |-> ~alphaBackground, ready |-> cleaner_ready, configured |-> text_cleaner,
                       threshold |-> threshold]
        /\ IF alphaBackground
           THEN /\ cleaned_image' = Zeros(height, width)
                /\ gpc' = "render"
                /\ UNCHANGED <<cleanLog, gresp>>
           ELSE /\ cleanLog' = IF got.ok THEN Append(cleanLog, CleanerUsed(got.cleaner)) ELSE cleanLog
                /\ IF cleaned.ok
                   THEN /\ cleaned_image' =
                             IF UsePolygonMask(polygon)
                             THEN WithAlphaMask(ToBGRA(cleaned.img), FillPoly(PolyPoints(polygon), width, height))
                             ELSE cleaned.img
                        /\ gpc' = "render"
                        /\ UNCHANGED gresp
                   ELSE /\ gpc' = "done"
                        /\ gresp' = PatchError(500)
                        /\ UNCHANGED cleaned_image
    /\ UNCHANGED <<gimpl, capturedImage, alphaBackground, image>>
    /\ UNCHANGED <<cvars, mvars, ovars>>

\* lines 184-216: render on the 4-channel or the 3-channel image, encode as
\* PNG, answer with size=[width, height]
HandlerPatchRender ==
    /\ gpc = "render" /\ gimpl = "handler"
    /\ \E text \in Texts, fontSize \in FontSizes, fontType \in FontTypes, textColor \in TextColours,
          stroke \in Strokes, files \in FontFiles :
        LET height == Shape(image)[1]
            width == Shape(image)[2]
            strokeColor == stroke[1]
            strokeWidth == stroke[2]
            font_path == get_font_path(fontType, files)
            font_file == files[font_path.family]
        IN  \E r \in {IF cleaned_image.ch = 4
                      THEN render_text_on_rgba(cleaned_image, Join(text), fontSize, fontType, textColor,
                                               strokeColor, strokeWidth, polygonPoints, width, height, files)
                      ELSE render_text(cleaned_image, Join(text), width, height, fontSize, fontType,
                                       textColor, strokeColor, strokeWidth, files)} :
               gresp' = IF r.ok
                        THEN PatchSuccess(PatchSize(width, height), EncodePng(r.img), fontType, font_path, font_file, r,
                                          Colours(textColor, strokeColor, strokeWidth))
                        ELSE PatchFailure(500, fontType, font_path, font_file)
    /\ gpc' = "done"
    /\ UNCHANGED <<gimpl, capturedImage, alphaBackground, image, polygonPoints, cleaned_image, cleanLog, atClean>>
    /\ UNCHANGED <<cvars, mvars, ovars>>

\* ------------------------------------------------ server.py generate_patch
\* lines 361-369: decode the region; its PatchRequest has no alphaBackground
\* and no cleanerThreshold field
ServerPatchBegin ==
    /\ gpc = "idle"
    /\ \E file \in RegionFiles :
        /\ gimpl' = "server"
        /\ capturedImage' = file
        /\ alphaBackground' = FALSE
        /\ image' = IF B64Ok(file) THEN ImreadColor(file) ELSE NoImage
        /\ IF ~B64Ok(file)
           THEN gpc' = "done" /\ gresp' = PatchError(400)
           ELSE IF ImreadColor(file) = NoImage
           THEN gpc' = "done" /\ gresp' = PatchError(500)
           ELSE gpc' = "clean" /\ gresp' = NoPatchResponse
    /\ UNCHANGED <<polygonPoints, cleaned_image, cleanLog, atClean>>
    /\ UNCHANGED <<cvars, mvars, ovars>>

\* lines 374-403: clean with the global text_cleaner, with or without the
\* polygon as the alpha channel
ServerPatchClean ==
    /\ gpc = "clean" /\ gimpl = "server"
    /\ \E polygon \in PolygonChoices, threshold \in CleanerThresholds, debug_ok \in BOOLEAN :
        LET height == Shape(image)[1]
            width == Shape(image)[2]
            \* the request's cleanerThreshold is no field of server.py's PatchRequest
            cleaned == clean_text_region(image, text_cleaner, debug_ok)
        IN
        /\ polygonPoints' = polygon
        /\ atClean' = [required |-> TRUE, ready |-> cleaner_ready, configured |-> text_cleaner,
                       threshold |-> threshold]
        /\ cleanLog' = Append(cleanLog, CleanerUsed(text_cleaner))
        /\ IF cleaned.ok
           THEN /\ cleaned_image' =
                     IF UsePolygonMask(polygon)
                     THEN WithAlphaMask(ToBGRA(cleaned.img), FillPoly(PolyPoints(polygon), width, height))
                     ELSE cleaned.img
                /\ gpc' = "render"
                /\ UNCHANGED gresp
           ELSE /\ gpc' = "done"
                /\ gresp' = PatchError(500)
                /\ UNCHANGED cleaned_image
    /\ UNCHANGED <<gimpl, capturedImage, alphaBackground, image>>
    /\ UNCHANGED <<cvars, mvars, ovars>>

\* lines 407-532: render inline on the polygon path, with render_text
\* otherwise; encode as PNG, answer with size=[width, height]
ServerPatchRender ==
    /\ gpc = "render" /\ gimpl = "server"
    /\ \E text \in Texts, fontSize \in FontSizes, fontType \in FontTypes, textColor \in TextColours,
          stroke \in Strokes, files \in FontFiles :
        LET height == Shape(image)[1]
            width == Shape(image)[2]
            strokeColor == stroke[1]
            strokeWidth == stroke[2]
            font_path == get_font_path(fontType, files)
            font_file == files[font_path.family]
        IN  \E r \in {IF UsePolygonMask(polygonPoints)
                      THEN ServerRenderPolygon(cleaned_image, Join(text), fontSize, fontType, textColor,
                                               strokeColor, strokeWidth, polygonPoints, files)
                      ELSE render_text(cleaned_image, Join(text), width, height, fontSize, fontType,
                                       textColor, strokeColor, strokeWidth, files)} :
               gresp' = IF r.ok
                        THEN PatchSuccess(PatchSize(width, height), EncodePng(r.img), fontType, font_path, font_file, r,
                                          Colours(textColor, strokeColor, strokeWidth))
                        ELSE PatchFailure(500, fontType, font_path, font_file)
    /\ gpc' = "done"
    /\ UNCHANGED <<gimpl, capturedImage, alphaBackground, image, polygonPoints, cleaned_image, cleanLog, atClean>>
    /\ UNCHANGED <<cvars, mvars, ovars>>

PatchNext ==
    \/ LoadCleanerReadEnv
    \/ LoadCleanerCreate
    \/ LoadCleanerFallbackMode
    \/ LoadCleanerFallbackCreate
    \/ LoadCleanerReady
    \/ HandlerPatchBegin
    \/ HandlerPatchClean
    \/ HandlerPatchRender
    \/ ServerPatchBegin
    \/ ServerPatchClean
    \/ ServerPatchRender

SpecPatch == Init /\ [][PatchNext]_vars

\* ------------------------------------------------ state.py model loaders
\* _load_ocr_model line 52: MangaOcr(force_cpu=True) returns or raises
LoadOcrInstance ==
    /\ opc = "start"
    /\ \E loads \in BOOLEAN :
        IF loads
        THEN ocr_instance' = "MangaOcr" /\ opc' = "instance"
        ELSE opc' = "failed" /\ UNCHANGED ocr_instance
    /\ UNCHANGED <<ocr_ready, animelama_instance, animelama_ready, yolo_instance, yolo_ready, apc, ypc>>
    /\ UNCHANGED <<evars, mvars, pvars, xvars, hvars, fvars>>

\* line 53: ocr_ready = True
LoadOcrReady ==
    /\ opc = "instance"
    /\ ocr_ready' = TRUE
    /\ opc' = "done"
    /\ UNCHANGED <<ocr_instance, animelama_instance, animelama_ready, yolo_instance, yolo_ready, apc, ypc>>
    /\ UNCHANGED <<evars, mvars, pvars, xvars, hvars, fvars>>

\* _load_animelama_model lines 62-68: the class may be missing (return), and
\* AnimeLaMa(device="cpu") returns or raises
LoadAnimelamaInstance ==
    /\ apc = "start"
    /\ \E available \in BOOLEAN, loads \in BOOLEAN :
        IF available /\ loads
        THEN animelama_instance' = "AnimeLaMa" /\ apc' = "instance"
        ELSE apc' = "failed" /\ UNCHANGED animelama_instance
    /\ UNCHANGED <<ocr_instance, ocr_ready, animelama_ready, yolo_instance, yolo_ready, opc, ypc>>
    /\ UNCHANGED <<evars, mvars, pvars, xvars, hvars, fvars>>

\* line 69: animelama_ready = True
LoadAnimelamaReady ==
    /\ apc = "instance"
    /\ animelama_ready' = TRUE
    /\ apc' = "done"
    /\ UNCHANGED <<ocr_instance, ocr_ready, animelama_instance, yolo_instance, yolo_ready, opc, ypc>>
    /\ UNCHANGED <<evars, mvars, pvars, xvars, hvars, fvars>>

\* Mutant of the loader: a failed load goes on to the line that sets the flag.
LoadYoloInstanceFlagAnyway ==
    /\ ypc = "start"
    /\ \E available \in BOOLEAN, loads \in BOOLEAN :
        IF available /\ loads
        THEN yolo_instance' = "YOLO" /\ ypc' = "instance"
        ELSE ypc' = "instance" /\ UNCHANGED yolo_instance
    /\ UNCHANGED <<ocr_instance, ocr_ready, animelama_instance, animelama_ready, yolo_ready, opc, apc>>
    /\ UNCHANGED <<evars, mvars, pvars, xvars, hvars, fvars>>

\* _load_yolo_model lines 78-94: the imports may be missing (return), and
\* the download or YOLO(model_path) returns or raises
LoadYoloInstance ==
    /\ ypc = "start"
    /\ \E available \in BOOLEAN, loads \in BOOLEAN :
        IF available /\ loads
        THEN yolo_instance' = "YOLO" /\ ypc' = "instance"
        ELSE ypc' = "failed" /\ UNCHANGED yolo_instance
    /\ UNCHANGED <<ocr_instance, ocr_ready, animelama_instance, animelama_ready, yolo_ready, opc, apc>>
    /\ UNCHANGED <<evars, mvars, pvars, xvars, hvars, fvars>>

\* line 95: yolo_ready = True
LoadYoloReady ==
    /\ ypc = "instance"
    /\ yolo_ready' = TRUE
    /\ ypc' = "done"
    /\ UNCHANGED <<ocr_instance, ocr_ready, animelama_instance, animelama_ready, yolo_instance, opc, apc>>
    /\ UNCHANGED <<evars, mvars, pvars, xvars, hvars, fvars>>

\* ------------------------------------------------- the model endpoints
\* Mutant of the readiness check: the 503 is raised inside the try block,
\* whose "except Exception" answers with 500.
ArriveInsideTry(name, request, not_ready, loaded) ==
    /\ epc \in {"idle", "done"}
    /\ sent < MaxRequests
    /\ sent' = sent + 1
    /\ endpoint' = name
    /\ payload' = request
    /\ loadedAtCheck' = loaded
    /\ checks' = 1
    /\ decodes' = 0
    /\ calls' = 0
    /\ IF not_ready
       THEN epc' = "done" /\ eresp' = 500 /\ refused' = refused \cup {name}
       ELSE epc' = "checked" /\ eresp' = 0 /\ UNCHANGED refused
    /\ UNCHANGED <<lvars, mvars, pvars, xvars, hvars, fvars>>

\* A request arrives at a handler, which checks its model: not_ready is the
\* handler's own test, loaded is how far the model is loaded.
Arrive(name, request, not_ready, loaded) ==
    /\ epc \in {"idle", "done"}
    /\ sent < MaxRequests
    /\ sent' = sent + 1
    /\ endpoint' = name
    /\ payload' = request
    /\ loadedAtCheck' = loaded
    /\ checks' = 1
    /\ decodes' = 0
    /\ calls' = 0
    /\ IF not_ready
       THEN epc' = "done" /\ eresp' = 503 /\ refused' = refused \cup {name}
       ELSE epc' = "checked" /\ eresp' = 0 /\ UNCHANGED refused
    /\ UNCHANGED <<lvars, mvars, pvars, xvars, hvars, fvars>>

\* The try block of a handler: the payload's parts are decoded one after the
\* other, then the model is called; any exception is answered with 500.
Process(name, parts) ==
    /\ epc = "checked" /\ endpoint = name
    /\ LET bad == {i \in DOMAIN parts : parts[i] # "image"}
           first_bad == CHOOSE i \in bad : \A j \in bad : i <= j
       IN  IF bad # {}
           THEN /\ decodes' = first_bad
                /\ calls' = 0
                /\ eresp' = 500
           ELSE \E raises \in BOOLEAN :
                /\ decodes' = Len(parts)
                /\ calls' = 1
                /\ eresp' = IF raises THEN 500 ELSE 200
    /\ epc' = "done"
    /\ UNCHANGED <<endpoint, payload, sent, refused, loadedAtCheck, checks>>
    /\ UNCHANGED <<lvars, mvars, pvars, xvars, hvars, fvars>>

\* handlers/scan.py lines 29-30: if not state.ocr_instance -> 503
ScanCheck ==
    \E part \in Base64Parts :
        Arrive("scan_image_base64", Payload(part, None), ocr_instance = None, Loaded(ocr_instance, ocr_ready))

\* handlers/scan.py lines 32-46
ScanProcess == Process("scan_image_base64", <<payload.image>>)

\* handlers/scan_upload.py lines 28-29: if state.ocr_instance is None -> 503
ScanUploadCheck ==
    \E part \in FileParts :
        Arrive("scan_image_upload", Payload(part, None), ocr_instance = None, Loaded(ocr_instance, ocr_ready))

\* handlers/scan_upload.py lines 31-48
ScanUploadProcess == Process("scan_image_upload", <<payload.image>>)

\* handlers/inpaint.py lines 31-32
InpaintCheck ==
    \E part \in FileParts, mask \in FileParts :
        Arrive("inpaint_mask", Payload(part, mask), ~animelama_ready \/ animelama_instance = None,
               Loaded(animelama_instance, animelama_ready))

\* handlers/inpaint.py lines 34-71: the image, then the mask, then inpaint
InpaintProcess == Process("inpaint_mask", <<payload.image, payload.mask>>)

\* Mutant of the readiness check: the handler does not test its model.
PredictCheckSkipped ==
    \E part \in Base64Parts :
        Arrive("predict_regions", Payload(part, None), FALSE, Loaded(yolo_instance, yolo_ready))

\* handlers/predict.py lines 26-27
PredictCheck ==
    \E part \in Base64Parts :
        Arrive("predict_regions", Payload(part, None), ~yolo_ready \/ yolo_instance = None,
               Loaded(yolo_instance, yolo_ready))

\* handlers/predict.py lines 29-50
PredictProcess == Process("predict_regions", <<payload.image>>)

ModelsNext ==
    \/ LoadOcrInstance
    \/ LoadOcrReady
    \/ LoadAnimelamaInstance
    \/ LoadAnimelamaReady
    \/ LoadYoloInstance
    \/ LoadYoloReady
    \/ ScanCheck
    \/ ScanProcess
    \/ ScanUploadCheck
    \/ ScanUploadProcess
    \/ InpaintCheck
    \/ InpaintProcess
    \/ PredictCheck
    \/ PredictProcess

SpecModels == Init /\ [][ModelsNext]_vars

\* ------------------------------- the cleaning stage of two invocations
\* server.py lines 361-392: an invocation decodes its region and takes the
\* global text_cleaner. generate_patch awaits nothing, so the event loop runs
\* one invocation to its end before it starts another.
InvokeBegin(i) ==
    /\ running = 0 /\ ipc[i] = "idle"
    /\ \E file \in {f \in RegionFiles : ImreadColor(f) # NoImage} :
        iregion' = [iregion EXCEPT ![i] = ImreadColor(file)]
    /\ running' = i
    /\ icleaner' = [icleaner EXCEPT ![i] = CleanerUsed(text_cleaner)]
    /\ ipc' = [ipc EXCEPT ![i] = IF CleanerUsed(text_cleaner).kind = "lama" THEN "save_input" ELSE "opencv"]
    /\ UNCHANGED <<iresult, debug_files, writers>>
    /\ UNCHANGED <<mvars, pvars, lvars, evars, hvars, fvars>>

\* OpenCVCleaner.clean lines 55-60
InvokeOpenCV(i) ==
    /\ running = i /\ ipc[i] = "opencv"
    /\ iresult' = [iresult EXCEPT ![i] = OpenCVClean(icleaner[i], iregion[i])]
    /\ ipc' = [ipc EXCEPT ![i] = "done"]
    /\ running' = 0
    /\ UNCHANGED <<iregion, icleaner, debug_files, writers>>
    /\ UNCHANGED <<mvars, pvars, lvars, evars, hvars, fvars>>

\* LamaCleaner.clean lines 85-118: the mask, then the two debug files
InvokeSaveInput(i) ==
    /\ running = i /\ ipc[i] = "save_input"
    /\ debug_files' = [debug_files EXCEPT !["/app/debug_input.png"] = File("png", iregion[i]),
                                          !["/app/debug_mask.png"] = MaskFile(LamaMask(icleaner[i], iregion[i]))]
    /\ writers' = [writers EXCEPT !["/app/debug_input.png"] = @ \cup {i},
                                  !["/app/debug_mask.png"] = @ \cup {i}]
    /\ ipc' = [ipc EXCEPT ![i] = "infer"]
    /\ UNCHANGED <<running, iregion, icleaner, iresult>>
    /\ UNCHANGED <<mvars, pvars, lvars, evars, hvars, fvars>>

\* line 122: result = self.model(pil_image, pil_mask), which may raise
InvokeInfer(i) ==
    /\ running = i /\ ipc[i] = "infer"
    /\ IF SimpleLamaRaises(iregion[i])
       THEN /\ ipc' = [ipc EXCEPT ![i] = "done"]
            /\ running' = 0
            /\ UNCHANGED iresult
       ELSE /\ iresult' = [iresult EXCEPT ![i] = SimpleLama(iregion[i], LamaMask(icleaner[i], iregion[i]))]
            /\ ipc' = [ipc EXCEPT ![i] = "save_output"]
            /\ UNCHANGED running
    /\ UNCHANGED <<iregion, icleaner, debug_files, writers>>
    /\ UNCHANGED <<mvars, pvars, lvars, evars, hvars, fvars>>

\* lines 127-131: the third debug file, then the cropped result is returned
InvokeSaveOutput(i) ==
    /\ running = i /\ ipc[i] = "save_output"
    /\ debug_files' = [debug_files EXCEPT !["/app/debug_output.png"] = File("png", iresult[i])]
    /\ writers' = [writers EXCEPT !["/app/debug_output.png"] = @ \cup {i}]
    /\ iresult' = [iresult EXCEPT ![i] = Crop(iresult[i], iregion[i].w, iregion[i].h)]
    /\ ipc' = [ipc EXCEPT ![i] = "done"]
    /\ running' = 0
    /\ UNCHANGED <<iregion, icleaner>>
    /\ UNCHANGED <<mvars, pvars, lvars, evars, hvars, fvars>>

SharedNext ==
    \/ LoadCleanerReadEnv
    \/ LoadCleanerCreate
    \/ LoadCleanerFallbackMode
    \/ LoadCleanerFallbackCreate
    \/ LoadCleanerReady
    \/ \E i \in Invocations : InvokeBegin(i)
    \/ \E i \in Invocations : InvokeOpenCV(i)
    \/ \E i \in Invocations : InvokeSaveInput(i)
    \/ \E i \in Invocations : InvokeInfer(i)
    \/ \E i \in Invocations : InvokeSaveOutput(i)

SpecShared == Init /\ [][SharedNext]_vars

\* ------------------------------------------------------- health_check
\* server.py _load_ocr_model line 144: MangaOcr(force_cpu=True) returns or raises
ServerLoadOcrInstance ==
    /\ sopc = "start"
    /\ \E loads \in BOOLEAN :
        IF loads
        THEN server_ocr_instance' = "MangaOcr" /\ sopc' = "instance"
        ELSE sopc' = "failed" /\ UNCHANGED server_ocr_instance
    /\ UNCHANGED <<server_ocr_ready, hresp>>
    /\ UNCHANGED <<mvars, pvars, lvars, evars, xvars, fvars>>

\* line 145: ocr_ready = True
ServerLoadOcrReady ==
    /\ sopc = "instance"
    /\ server_ocr_ready' = TRUE
    /\ sopc' = "done"
    /\ UNCHANGED <<server_ocr_instance, hresp>>
    /\ UNCHANGED <<mvars, pvars, lvars, evars, xvars, fvars>>

\* server.py health_check lines 223-228
ServerHealthCheck ==
    /\ hresp' = Health("server", 200, "healthy", server_ocr_ready /\ cleaner_ready, cleaner_mode,
                       server_ocr_ready, cleaner_ready)
    /\ UNCHANGED <<server_ocr_instance, server_ocr_ready, sopc>>
    /\ UNCHANGED <<mvars, pvars, lvars, evars, xvars, fvars>>

\* handlers/health.py health_check lines 14-19: the arguments are evaluated
\* in order; "and" reads state.cleaner_ready only when state.ocr_ready is
\* true; a name the state module does not define raises AttributeError.
HandlerHealthCheck ==
    /\ LET reads == (IF ocr_ready THEN {"ocr_ready", "cleaner_ready"} ELSE {"ocr_ready"})
                        \cup {"cleaner_mode", "BUILD_ID"}
       IN  hresp' = IF reads \subseteq StateAttrs
                    THEN Health("handler", 200, "healthy", ocr_ready /\ cleaner_ready, cleaner_mode,
                                ocr_ready, cleaner_ready)
                    ELSE Health("handler", 500, "error", FALSE, None, ocr_ready, cleaner_ready)
    /\ UNCHANGED <<server_ocr_instance, server_ocr_ready, sopc>>
    /\ UNCHANGED <<mvars, pvars, lvars, evars, xvars, fvars>>

HealthNext ==
    \/ LoadCleanerReadAnyEnv
    \/ LoadCleanerCreate
    \/ LoadCleanerFallbackMode
    \/ LoadCleanerFallbackCreate
    \/ LoadCleanerReady
    \/ ServerLoadOcrInstance
    \/ ServerLoadOcrReady
    \/ LoadOcrInstance
    \/ LoadOcrReady
    \/ ServerHealthCheck
    \/ HandlerHealthCheck

SpecHealth == Init /\ [][HealthNext]_vars

\* server.py line 187: _load_cleaner_model runs in a thread of its own, which
\* the scheduler does not starve: weak fairness of its steps.
LoadCleanerStep ==
    \/ LoadCleanerReadAnyEnv
    \/ LoadCleanerCreate
    \/ LoadCleanerFallbackMode
    \/ LoadCleanerFallbackCreate
    \/ LoadCleanerReady

SpecHealthFair == Init /\ [][HealthNext]_vars /\ WF_vars(LoadCleanerStep)

\* ------------------------- all loader threads beside the model endpoints
\* server.py lifespan lines 181-186 and state.start_model_loading lines
\* 108-114 start the loaders as daemon threads; handlers run meanwhile.
ReadyNext ==
    \/ ModelsNext
    \/ LoadCleanerReadEnv
    \/ LoadCleanerCreate
    \/ LoadCleanerFallbackMode
    \/ LoadCleanerFallbackCreate
    \/ LoadCleanerReady
    \/ ServerLoadOcrInstance
    \/ ServerLoadOcrReady

SpecReady == Init /\ [][ReadyNext]_vars

\* ------------------------------------------------- calls of the renderers
\* text_renderer.render_text on a 3-channel image
RenderTextCall ==
    /\ rcall = NoCall
    /\ \E base \in Bases3, text \in Texts, fontSize \in FontSizes, fontType \in FontTypes,
          textColor \in TextColours, stroke \in RenderStrokes, files \in FontFiles :
        rcall' = Call("render_text", base, text, Colours(textColor, stroke[1], stroke[2]),
                      render_text(base, Join(text), base.w, base.h, fontSize, fontType, textColor,
                                  stroke[1], stroke[2], files))
    /\ UNCHANGED <<mvars, pvars, lvars, evars, xvars, hvars, ocall, lcall>>

\* handlers/patch.py _render_text_on_rgba on a 4-channel image
RenderRgbaCall ==
    /\ rcall = NoCall
    /\ \E base \in Bases4, text \in Texts, fontSize \in FontSizes, fontType \in FontTypes,
          textColor \in TextColours, stroke \in RenderStrokes, files \in FontFiles, polygon \in PolygonChoices :
        rcall' = Call("render_text_on_rgba", base, text, Colours(textColor, stroke[1], stroke[2]),
                      render_text_on_rgba(base, Join(text), fontSize, fontType, textColor,
                                          stroke[1], stroke[2], polygon, base.w, base.h, files))
    /\ UNCHANGED <<mvars, pvars, lvars, evars, xvars, hvars, ocall, lcall>>

\* server.py generate_patch lines 410-484 on a polygon-masked image
ServerPolygonCall ==
    /\ rcall = NoCall
    /\ \E base \in Bases4, text \in Texts, fontSize \in FontSizes, fontType \in FontTypes,
          textColor \in TextColours, stroke \in RenderStrokes, files \in FontFiles,
          polygon \in {c \in PolygonChoices : UsePolygonMask(c)} :
        rcall' = Call("server_polygon", base, text, Colours(textColor, stroke[1], stroke[2]),
                      ServerRenderPolygon(base, Join(text), fontSize, fontType, textColor,
                                          stroke[1], stroke[2], polygon, files))
    /\ UNCHANGED <<mvars, pvars, lvars, evars, xvars, hvars, ocall, lcall>>

RenderNext ==
    \/ RenderTextCall
    \/ RenderRgbaCall
    \/ ServerPolygonCall

SpecRender == Init /\ [][RenderNext]_vars

\* ------------------------------------- one overlay of a merge_patches request
\* PatchOverlay.width / height are Optional[int] without a constraint: absent,
\* zero, or a size.
OverlayWidths == Widths \cup {Absent, 0}
OverlayHeights == Heights \cup {Absent, 0}

\* handlers/merge.py lines 41-53: decode, convert, resize
HandlerOverlayCall ==
    /\ ocall = NoOverlay
    /\ \E file \in PatchFiles, width \in OverlayWidths, height \in OverlayHeights :
        ocall' = Overlay("handler", file, width, height, HandlerPatch(file, width, height))
    /\ UNCHANGED <<mvars, pvars, lvars, evars, xvars, hvars, rcall, lcall>>

\* server.py lines 572-599: decode, convert, resize
ServerOverlayCall ==
    /\ ocall = NoOverlay
    /\ \E file \in PatchFiles, width \in OverlayWidths, height \in OverlayHeights :
        ocall' = Overlay("server", file, width, height, ServerPatch(file, width, height))
    /\ UNCHANGED <<mvars, pvars, lvars, evars, xvars, hvars, rcall, lcall>>

OverlayNext ==
    \/ HandlerOverlayCall
    \/ ServerOverlayCall

SpecOverlay == Init /\ [][OverlayNext]_vars

\* ---------------------------------------------- calls of neural inpainting
\* The sides of the modelled inputs: below, at and just above one block.
MaxSide == 9
Sides == 1..MaxSide

\* cv2.copyMakeBorder(..., cv2.BORDER_REFLECT): the source index of the
\* border pixel i of a side of n pixels (fedcba|abcdefgh|hgfedcb), for a
\* border of any width.
RECURSIVE CvReflect(_, _)
CvReflect(i, n) ==
    IF n = 1 THEN 0
    ELSE IF i < 0 THEN CvReflect(0 - i - 1, n)
    ELSE IF i >= n THEN CvReflect(2 * n - 1 - i, n)
    ELSE i

\* helper.pad_img_to_modulo
pad_img_to_modulo(img, mod_pad) ==
    LET bottom == (mod_pad - (img.h % mod_pad)) % mod_pad
        right == (mod_pad - (img.w % mod_pad)) % mod_pad
    IN  [w |-> img.w + right, h |-> img.h + bottom, ch |-> img.ch,
         pix |-> [p \in Pixels(img.w + right, img.h + bottom) |->
                    img.pix[<<CvReflect(p[1], img.w), CvReflect(p[2], img.h)>>]]]

\* AnimeLaMa.forward lines 62-85: pad image and mask, run the model, crop
AnimeLamaForward(img, mask) ==
    LET padded == pad_img_to_modulo(img, LamaBlock)
    IN  Returned(Crop(Inpaint(padded, mask), img.w, img.h))

\* LamaCleaner.clean, which calls SimpleLama.__call__ (lama.py lines 258-297)
SimpleLamaCall ==
    /\ lcall = NoLamaCall
    /\ \E w \in Sides, h \in Sides, c \in RegionColours :
        LET img == RegionImage(w, h, c) IN
        lcall' = LamaCall("SimpleLama", w, h, LamaPad(w), LamaPad(h),
                          LamaClean(LamaCleaner(LamaThreshold), img, TRUE))
    /\ UNCHANGED <<mvars, pvars, lvars, evars, xvars, hvars, rcall, ocall>>

\* AnimeLaMa.inpaint, which pads with helper.pad_img_to_modulo
AnimeLamaCall ==
    /\ lcall = NoLamaCall
    /\ \E w \in Sides, h \in Sides, c \in RegionColours :
        LET img == RegionImage(w, h, c)
            padded == pad_img_to_modulo(img, LamaBlock)
        IN  lcall' = LamaCall("AnimeLaMa", w, h, padded.w - w, padded.h - h,
                              AnimeLamaForward(img, ThresholdMask(img, LamaThreshold)))
    /\ UNCHANGED <<mvars, pvars, lvars, evars, xvars, hvars, rcall, ocall>>

LamaNext ==
    \/ SimpleLamaCall
    \/ AnimeLamaCall

SpecLama == Init /\ [][LamaNext]_vars

\* =============================================================== claims
\* The rectangle at which the overlay in hand is placed, against the page.
PlacedOutside ==
    \/ pos[1] < 0
    \/ pos[2] < 0
    \/ pos[1] + cur.placed.w > pageSize[1]
    \/ pos[2] + cur.placed.h > pageSize[2]

InPlacedRect(p) ==
    /\ p[1] >= pos[1] /\ p[1] < pos[1] + cur.placed.w
    /\ p[2] >= pos[2] /\ p[2] < pos[2] + cur.placed.h

\* The pixel of the patch, as the caller sent it, that lands on page pixel p.
SentPixel(p) == cur.sent.pix[<<p[1] - pos[1], p[2] - pos[2]>>]

\* C1: in handlers/merge.py an overlay whose placed rectangle is not entirely
\* inside the page leaves the working buffer unchanged, raises no error, and
\* the loop goes on to the next overlay.
C1_OutOfBoundsOverlaySkipped ==
    [][(mpc = "place" /\ impl = "handler" /\ PlacedOutside)
        => (buf' = buf /\ mpc' = "loop" /\ mresp' = NoResponse)]_vars

\* C1 witness: an out-of-bounds overlay was skipped by the handler and the
\* next overlay of the list is in hand.
C1_Witness ==
    impl = "handler" /\ outcome = "skipped" /\ mpc = "place" /\ idx = 2

\* C2: an overlay whose bytes cannot be decoded is skipped; the merge goes on
\* and does not end in an HTTP error.
C2_UndecodableOverlaySkipped ==
    outcome = "undecodable" => (mresp.status # "error" /\ (mpc = "done" => mresp.status = "success"))

\* C3: a PNG page yields PNG output and a JPEG page yields JPEG output.
C3_OutputFormatIsPageFormat ==
    (mresp.status = "success" /\ pageFormat \in {"png", "jpeg"}) => mresp.fmt = pageFormat

\* C4: for an overlay placed inside the page, a patch pixel sent with alpha 0
\* leaves the page pixel unchanged, and a patch pixel sent with alpha 255 (or
\* without alpha channel) replaces the page pixel's colour by the patch's.
C4_AlphaDrivesBlend ==
    [][(mpc = "place" /\ ~PlacedOutside)
        => \A p \in Pixels(buf.w, buf.h) :
              InPlacedRect(p) =>
                  /\ SentPixel(p)[2] = 0 => buf'.pix[p] = buf.pix[p]
                  /\ SentPixel(p)[2] = Opaque => buf'.pix[p][1] = SentPixel(p)[1]]_vars

\* C5: overlays are applied one at a time in list order: when an opaque
\* overlay is placed inside the page, every pixel of its rectangle takes the
\* overlay's colour whatever earlier overlays painted there, and no pixel
\* outside the rectangle is read or written.
OpaqueSent == \A q \in DOMAIN cur.sent.pix : cur.sent.pix[q][2] = Opaque

C5_LaterOverlayPaintsOver ==
    [][(mpc = "place" /\ ~PlacedOutside /\ OpaqueSent)
        => /\ \A p \in Pixels(buf.w, buf.h) :
                IF InPlacedRect(p)
                THEN buf'.pix[p][1] = SentPixel(p)[1]
                ELSE buf'.pix[p] = buf.pix[p]
           /\ idx' = idx
           /\ mpc' = "loop"]_vars

\* C5 witness: the second overlay of the list, opaque and inside the page, is
\* about to be placed over a pixel that the first overlay painted in another
\* colour.
C5_Witness ==
    /\ mpc = "place" /\ idx = 2 /\ outcome = "blended" /\ ~PlacedOutside /\ OpaqueSent
    /\ \E p \in Pixels(buf.w, buf.h) :
        /\ InPlacedRect(p)
        /\ buf.pix[p][1] \notin PageColours
        /\ buf.pix[p][1] # SentPixel(p)[1]

\* C6: the working buffer and the merged image always have the page's width
\* and height.
C6_PageSizeKept ==
    /\ buf # NoImage => (<<buf.w, buf.h>> = pageSize /\ DOMAIN buf.pix = Pixels(pageSize[1], pageSize[2]))
    /\ mresp.status = "success" =>
          (<<mresp.img.w, mresp.img.h>> = pageSize /\ DOMAIN mresp.img.pix = Pixels(pageSize[1], pageSize[2]))

\* C6 witness: a merge returned after blending a resized overlay onto a page
\* of another size.
C6_Witness ==
    /\ mresp.status = "success" /\ outcome = "blended" /\ idx = MaxOverlays
    /\ pageSize = <<MaxW, 2>>

\* ------------------------------------------------------ generate_patch
\* The returned patch as a client decodes it.
ReturnedPatch == ImreadUnchanged(gresp.patchImage)

\* C7: when generate_patch succeeds, the reported size [width, height] and
\* the pixel dimensions of the returned patch are the dimensions of the
\* decoded region, in the alpha, the polygon-masked and the plain mode.
C7_PatchSizeIsRegionSize ==
    gresp.status = "success" =>
        /\ <<image.w, image.h>> = <<capturedImage.img.w, capturedImage.img.h>>
        /\ gresp.size = <<image.w, image.h>>
        /\ <<ReturnedPatch.w, ReturnedPatch.h>> = <<image.w, image.h>>
        /\ DOMAIN ReturnedPatch.pix = Pixels(image.w, image.h)

\* A polygon-masked patch of a region that is wider than high, with polygon
\* points outside the region.
C7_Witness ==
    /\ gresp.status = "success"
    /\ UsePolygonMask(polygonPoints)
    /\ \E i \in DOMAIN polygonPoints.pts : PolyPoints(polygonPoints)[i][1] > image.w
    /\ <<image.w, image.h>> = <<2, 1>>

\* C8: with alphaBackground the handler calls no cleaner, renders on an
\* all-zero 4-channel buffer of the region's size, and every pixel of the
\* returned patch that no draw touched has alpha 0.
C8_AlphaBackgroundSkipsCleaner ==
    (gimpl = "handler" /\ alphaBackground /\ image # NoImage /\ gpc \in {"render", "done"}) =>
        /\ cleanLog = <<>>
        /\ cleaned_image = [w |-> image.w, h |-> image.h, ch |-> 4,
                            pix |-> [p \in Pixels(image.w, image.h) |-> <<0, 0>>]]
        /\ gresp.status = "success" =>
              /\ ReturnedPatch.ch = 4
              /\ \A p \in Pixels(image.w, image.h) :
                    p \notin gresp.touched => ReturnedPatch.pix[p][2] = 0

\* An alpha-background patch with polygon points, where the text touched
\* some pixels of the region and left others.
C8_Witness ==
    /\ gimpl = "handler" /\ alphaBackground /\ gresp.status = "success"
    /\ UsePolygonMask(polygonPoints)
    /\ gresp.touched # {}
    /\ \E p \in Pixels(image.w, image.h) : p \notin gresp.touched

\* C9: a request that needs cleaning while the cleaner is not ready
\* (text_cleaner unset, cleaner_ready false) calls no cleaner and is
\* answered at once with the not-ready condition (503).
C9_NotReadyFailsFast ==
    (atClean.required /\ ~atClean.ready /\ atClean.configured = NoCleaner) =>
        /\ cleanLog = <<>>
        /\ gpc = "done"
        /\ gresp.status = "error" /\ gresp.code = 503

\* C10: a request that reached the renderer succeeds whatever the state of
\* the font files: an unknown font type resolves to the regular family, and
\* a font file that is missing or cannot be opened gives the default font.
C10_FontNeverFailsRequest ==
    (gpc = "done" /\ gresp.fontType # None) =>
        /\ gresp.status = "success"
        /\ gresp.fontType \notin FontFamilies => gresp.fontFamily = "regular"
        /\ gresp.fontFile # "ok" => gresp.font = "default"

\* C11: when the OpenCV cleaner is the configured strategy, the threshold of
\* the cleaner that cleans the region is the request's cleanerThreshold.
C11_OpenCVUsesRequestThreshold ==
    (atClean.required /\ atClean.configured.kind = "opencv") =>
        \A i \in DOMAIN cleanLog :
            /\ cleanLog[i].kind = "opencv"
            /\ cleanLog[i].threshold = atClean.threshold

\* The region as the cleaner that the request called returns it.
CleanedRegion ==
    IF cleanLog[1].kind = "lama"
    THEN SimpleLama(image, LamaMask(cleanLog[1], image))
    ELSE OpenCVClean(cleanLog[1], image)

\* C12: without alpha background, the buffer handed to the renderer is the
\* opaque 3-channel cleaned region when the request has fewer than 3 polygon
\* points, and otherwise the cleaned region with 4 channels whose alpha is
\* 255 on the pixels inside the polygon of the rounded points and 0 elsewhere.
C12_MaskOnlyFromThreePoints ==
    (gpc = "render" /\ ~alphaBackground) =>
        /\ <<cleaned_image.w, cleaned_image.h>> = <<image.w, image.h>>
        /\ \A p \in Pixels(image.w, image.h) : cleaned_image.pix[p][1] = CleanedRegion.pix[p][1]
        /\ IF polygonPoints.given /\ Len(polygonPoints.pts) >= 3
           THEN /\ cleaned_image.ch = 4
                /\ \A p \in Pixels(image.w, image.h) :
                     cleaned_image.pix[p][2] =
                        IF p \in FillPoly(PolyPoints(polygonPoints), image.w, image.h) THEN Opaque ELSE 0
           ELSE /\ cleaned_image.ch = 3
                /\ \A p \in Pixels(image.w, image.h) : cleaned_image.pix[p][2] = Opaque

\* A cleaned region behind a triangle that covers some of its pixels only.
C12_Witness ==
    /\ gpc = "render" /\ ~alphaBackground
    /\ Len(polygonPoints.pts) = 3
    /\ \E p \in Pixels(image.w, image.h) : cleaned_image.pix[p][2] = 0
    /\ \E p \in Pixels(image.w, image.h) : cleaned_image.pix[p][2] = Opaque
    /\ \E p \in Pixels(image.w, image.h) : cleaned_image.pix[p][1] # image.pix[p][1]

\* The offsets of the stroke square of width w, without its centre.
SquareOffsets(w) == (((0 - w)..w) \X ((0 - w)..w)) \ {<<0, 0>>}

\* C13: in every rendering path, a requested stroke of width w makes
\* (2w+1)^2 - 1 draw calls in the stroke colour, one at every offset of the
\* square [-w, w] x [-w, w] except (0, 0), all of them before the single last
\* call in the text colour at offset (0, 0).
C13_StrokeCoversSquare ==
    (gresp.status = "success" /\ StrokeOn(gresp.colours.strokeColor, gresp.colours.strokeWidth)) =>
        LET w == gresp.colours.strokeWidth
            n == ((2 * w + 1) * (2 * w + 1)) - 1
        IN  /\ Len(gresp.passes) = n + 1
            /\ \A i \in 1..n : gresp.passes[i].fill = gresp.colours.strokeColor
            /\ \A o \in SquareOffsets(w) :
                  Cardinality({i \in 1..n : gresp.passes[i].offset = o}) = 1
            /\ gresp.passes[n + 1] = [offset |-> <<0, 0>>, fill |-> gresp.colours.textColor]

\* C14: the text is anchored at the centre of the polygon's bounding box when
\* the request supplied polygon points and at the image centre otherwise,
\* whatever the mode: alpha background or cleaned, 1 point or many.
C14_AnchorFollowsPolygon ==
    gresp.status = "success" =>
        gresp.layout.anchorKind =
            IF polygonPoints.given /\ polygonPoints.pts # <<>> THEN "polygon" ELSE "image"

\* C15: in every rendering path the draw origin is anchor - bbox_size/2 -
\* bbox_offset on both axes, up to the rounding of the halves, for the
\* bounding box measured at (0, 0).
C15_OriginCentresTheBox ==
    gresp.status = "success" =>
        LET bbox == gresp.layout.bbox
            size == <<bbox[3] - bbox[1], bbox[4] - bbox[2]>>
            \* twice the distance of the box's centre from the anchor
            off2(k) == (2 * (gresp.origin[k] + bbox[k]) + size[k]) - gresp.layout.anchor2[k]
        IN  \A k \in {1, 2} : off2(k) \in {0 - 1, 0, 1}

\* C16: a region that cannot be decoded is answered with a client error
\* (4xx), an exception while cleaning or rendering with a server error
\* (5xx); no failed request returns a patch.
C16_DecodeErrorIsClientError ==
    gresp.status = "error" =>
        /\ gresp.patchImage = NoFile
        /\ IF image = NoImage THEN gresp.code \in 400..499 ELSE gresp.code \in 500..599

\* C17: a request that reaches scan_image_base64, scan_image_upload,
\* inpaint_mask or predict_regions while the handler's model is not loaded is
\* answered with 503 after one check, with nothing decoded and the model not
\* called; a request that arrives when the model is loaded is never answered
\* with 503, and reaches the model when its payload decodes.
C17_NotLoadedFailsFast ==
    /\ checks <= 1
    /\ eresp = 503 <=> (endpoint # None /\ epc = "done" /\ loadedAtCheck # "yes" /\ calls = 0 /\ decodes = 0)
    /\ loadedAtCheck = "no" => (epc = "done" /\ eresp = 503 /\ decodes = 0 /\ calls = 0)
    /\ (loadedAtCheck = "yes" /\ epc = "done") =>
          /\ eresp \in {200, 500}
          /\ calls = IF payload.image = "image" /\ payload.mask \in {None, "image"} THEN 1 ELSE 0

\* The client's first request to inpaint_mask was answered with 503, and the
\* second, sent after the model had loaded, was answered by the model.
C17_Witness ==
    /\ sent = 2 /\ refused = {"inpaint_mask"} /\ endpoint = "inpaint_mask" /\ loadedAtCheck = "yes"
    /\ epc = "done" /\ calls = 1 /\ eresp = 200

\* C18: the strategy that cleaned a request is the strategy the process has
\* once its cleaner loader has finished, which cleans the requests after it.
C18_OneStrategyPerProcess ==
    (lpc = "done" /\ cleanLog # <<>>) =>
        \A i \in DOMAIN cleanLog : cleanLog[i].kind = text_cleaner.kind

\* C19: a request whose region decoded has called the cleaner exactly once
\* when it has left the cleaning step without alpha background, and never
\* with alpha background; a request answered with an error has stopped.
C19_CleanerOncePerRequest ==
    /\ (image # NoImage /\ gpc \in {"render", "done"}) =>
          Len(cleanLog) = IF alphaBackground THEN 0 ELSE 1
    /\ gresp.status = "error" => gpc = "done"

\* C20: two invocations of generate_patch share no mutable state: nothing
\* that the cleaning of one invocation writes is written by the other.
C20_NoSharedWrites ==
    \A f \in DebugFiles : Cardinality(writers[f]) <= 1

\* C21: every health_check call is answered "healthy", and its model_loaded
\* is true exactly when ocr_ready and cleaner_ready were both true when the
\* call was made.
C21_AlwaysHealthy ==
    hresp # NoHealth =>
        /\ hresp.code = 200
        /\ hresp.status = "healthy"
        /\ hresp.model_loaded <=> (hresp.ocr_ready /\ hresp.cleaner_ready)

\* C22: in render_text, _render_text_on_rgba and the polygon path of
\* server.py, a call with stroke width 0 or with no stroke colour makes
\* exactly one draw, the text-colour pass at offset (0, 0).
C22_NoStrokeOneDraw ==
    (rcall.r.ok /\ (rcall.colours.strokeWidth <= 0 \/ rcall.colours.strokeColor = Absent)) =>
        rcall.r.passes = <<[offset |-> <<0, 0>>, fill |-> rcall.colours.textColor]>>

\* A renderer returned for a call without stroke colour and with width 2.
C22_Witness ==
    /\ rcall.r.ok /\ rcall.path = "render_text_on_rgba"
    /\ rcall.colours.strokeColor = Absent /\ rcall.colours.strokeWidth = 2
    /\ rcall.r.touched # {}

\* C23: a renderer called with an empty list of lines returns the image it
\* was given, pixel for pixel, and so does the PNG made of it, with or
\* without a stroke requested.
C23_EmptyTextChangesNothing ==
    (rcall.r.ok /\ rcall.text = <<>>) =>
        /\ rcall.r.img = rcall.base
        /\ ImreadUnchanged(EncodePng(rcall.r.img)) = rcall.base

\* A renderer returned for an empty text with a stroke of width 2 on a
\* polygon-masked image.
C23_Witness ==
    /\ rcall.r.ok /\ rcall.text = <<>> /\ rcall.path = "server_polygon"
    /\ StrokeOn(rcall.colours.strokeColor, rcall.colours.strokeWidth)
    /\ Len(rcall.r.passes) > 1

\* C24: merge_patches resizes an overlay only when both target width and
\* target height are given: then the placed patch has exactly the target
\* size; otherwise it is placed at its decoded size.
C24_ResizeIffBothGiven ==
    (ocall # NoOverlay /\ ocall.placed # NoImage) =>
        <<ocall.placed.w, ocall.placed.h>> =
            IF ocall.width # Absent /\ ocall.height # Absent
            THEN <<ocall.width, ocall.height>>
            ELSE <<ocall.file.img.w, ocall.file.img.h>>

\* C25: a merge_patches request whose page decodes and whose container
\* format is neither PNG nor JPEG, or is not detected, ends in success with
\* the output encoded as JPEG at quality 95 (overlays that decode).
C25_UnknownFormatFallsBackToJpeg ==
    (mpc = "done" /\ pageSize # <<0, 0>> /\ pageFormat \notin {"png", "jpeg"} /\ outcome # "undecodable") =>
        (mresp.status = "success" /\ mresp.fmt = "jpeg" /\ mresp.quality = JpegQuality)

\* C26: neural inpainting keeps the size of every input: for all h, w >= 1
\* the padding is (8 - h mod 8) mod 8 and (8 - w mod 8) mod 8, each in 0..7
\* and making the padded sides multiples of 8, the call succeeds, and the
\* result has exactly the input's size.
C26_InpaintKeepsSize ==
    lcall # NoLamaCall =>
        /\ lcall.pad_h = (8 - (lcall.h % 8)) % 8 /\ lcall.pad_w = (8 - (lcall.w % 8)) % 8
        /\ lcall.pad_h \in 0..7 /\ lcall.pad_w \in 0..7
        /\ (lcall.h + lcall.pad_h) % 8 = 0 /\ (lcall.w + lcall.pad_w) % 8 = 0
        /\ lcall.r.ok
        /\ <<lcall.r.img.w, lcall.r.img.h>> = <<lcall.w, lcall.h>>

\* The model that an endpoint of handlers/ calls.
ModelOf(name) ==
    CASE name \in {"scan_image_base64", "scan_image_upload"} -> ocr_instance
      [] name = "inpaint_mask" -> animelama_instance
      [] name = "predict_regions" -> yolo_instance
      [] OTHER -> None

\* C27: in every state of the loader threads running beside the handlers a
\* readiness flag that is true implies that its instance is set, and a
\* handler that has passed its readiness check has its model.
C27_ReadyImpliesInstance ==
    /\ ocr_ready => ocr_instance # None
    /\ animelama_ready => animelama_instance # None
    /\ yolo_ready => yolo_instance # None
    /\ server_ocr_ready => server_ocr_instance # None
    /\ cleaner_ready => text_cleaner # NoCleaner
    /\ epc = "checked" => ModelOf(endpoint) # None
    /\ calls > 0 => ModelOf(endpoint) # None
C27_Witness ==
    /\ endpoint = "predict_regions" /\ calls = 1 /\ eresp = 200 /\ yolo_ready
    /\ cleaner_ready /\ text_cleaner # NoCleaner
    /\ apc = "failed" /\ ~animelama_ready
    /\ opc = "instance" /\ ~ocr_ready

\* C28: under fair scheduling of the loader thread _load_cleaner_model
\* eventually sets cleaner_ready with a text_cleaner, for every CLEANER_MODE
\* and also when loading the LaMa model raises; and whenever cleaner_ready
\* is true, cleaner_mode is "lama" exactly when text_cleaner is a LamaCleaner.
C28_CleanerEndsReady ==
    /\ <>(cleaner_ready /\ text_cleaner # NoCleaner)
    /\ [](cleaner_ready => ((cleaner_mode = "lama") <=> (text_cleaner.kind = "lama")))
    /\ []((lpc = "failed") => <>(cleaner_ready /\ cleaner_mode = "opencv" /\ text_cleaner.kind = "opencv"))
C28_Witness ==
    /\ cleaner_ready /\ lpc = "done"
    /\ cleaner_mode = "opencv" /\ text_cleaner = OpenCVCleaner(OpenCVThreshold)
    /\ hresp.by = "server" /\ hresp.cleaner_mode = "lama" /\ ~hresp.cleaner_ready

\* The endpoints that depend on each loader of state.py.
OcrEndpoints == {"scan_image_base64", "scan_image_upload"}
FlagsMonotone ==
    /\ (ocr_ready => ocr_ready') /\ (animelama_ready => animelama_ready') /\ (yolo_ready => yolo_ready')
    /\ (ocr_ready' # ocr_ready) => (opc = "instance" /\ opc' = "done")
    /\ (animelama_ready' # animelama_ready) => (apc = "instance" /\ apc' = "done")
    /\ (yolo_ready' # yolo_ready) => (ypc = "instance" /\ ypc' = "done")
LoadersRunOnce ==
    /\ (opc' = "start" => opc = "start") /\ (opc \in {"failed", "done"} => opc' = opc)
    /\ (apc' = "start" => apc = "start") /\ (apc \in {"failed", "done"} => apc' = apc)
    /\ (ypc' = "start" => ypc = "start") /\ (ypc \in {"failed", "done"} => ypc' = ypc)
FailureIsTerminal ==
    /\ (opc = "failed") => (~ocr_ready' /\ ocr_instance' = None)
    /\ (apc = "failed") => (~animelama_ready' /\ animelama_instance' = None)
    /\ (ypc = "failed") => (~yolo_ready' /\ yolo_instance' = None)
    /\ (sent' = sent + 1) =>
          /\ (opc = "failed" /\ endpoint' \in OcrEndpoints) => (eresp' = 503 /\ epc' = "done")
          /\ (apc = "failed" /\ endpoint' = "inpaint_mask") => (eresp' = 503 /\ epc' = "done")
          /\ (ypc = "failed" /\ endpoint' = "predict_regions") => (eresp' = 503 /\ epc' = "done")
LoadersIndependent ==
    /\ (opc = "start" => ENABLED LoadOcrInstance) /\ (opc = "instance" => ENABLED LoadOcrReady)
    /\ (apc = "start" => ENABLED LoadAnimelamaInstance) /\ (apc = "instance" => ENABLED LoadAnimelamaReady)
    /\ (ypc = "start" => ENABLED LoadYoloInstance) /\ (ypc = "instance" => ENABLED LoadYoloReady)

\* C29: each readiness flag of state.py is written only by its own loader,
\* goes from false to true at most once and never back; each loader runs
\* once, so after a load has raised its flag stays false and the dependent
\* endpoint answers 503 to every later request; a failed loader does not
\* keep the others from loading.
C29_FlagsMonotoneFailureTerminal ==
    /\ [][FlagsMonotone /\ LoadersRunOnce /\ FailureIsTerminal]_vars
    /\ []LoadersIndependent
C29_Witness ==
    /\ ypc = "failed" /\ ~yolo_ready
    /\ ocr_ready /\ animelama_ready
    /\ sent = MaxRequests /\ endpoint = "predict_regions" /\ eresp = 503
    /\ refused = {"predict_regions"}

\* The cleaning step of handlers/patch.py for a request without alpha
\* background: the shared cleaner and the mode are left as they are, and in
\* lama mode the region is cleaned by a LamaCleaner with the request's
\* threshold.
OverrideLeavesShared ==
    (gimpl = "handler" /\ gpc = "clean" /\ gpc' # "clean" /\ ~alphaBackground) =>
        /\ text_cleaner' = text_cleaner /\ cleaner_mode' = cleaner_mode
        /\ (cleaner_mode = "lama" /\ text_cleaner.kind = "lama") =>
              /\ cleanLog' = Append(cleanLog, LamaCleaner(atClean'.threshold))
              /\ text_cleaner'.threshold = LamaThreshold

\* C30: _get_cleaner never writes to the shared cleaner; in lama mode it
\* returns a fresh LamaCleaner with the request's threshold, so the shared
\* cleaner keeps its startup threshold and each request cleans with its own.
C30_ThresholdOverrideIsLocal == [][OverrideLeavesShared]_vars
====
